---------------------------- MODULE Spec2Model ----------------------------
(***************************************************************************)
(* NTSC/CRT: the composite-video encoder (crt_modulate) and decoder        *)
(* (crt_demodulate) of src/ntsc.c, with the CRT state of src/ntsc.h.       *)
(*                                                                         *)
(* The buffers keep the geometry of the source: analog and inp hold        *)
(* CRT_VRES rows of CRT_HRES samples; row n, column t of the model is      *)
(* analog[n * CRT_HRES + t] of the C array (a TLA+ sequence is indexed     *)
(* from 1, so the model reads row[t + 1]).                                 *)
(*                                                                         *)
(* C arithmetic: "/" truncates toward zero (CDiv), ">>" on a negative int  *)
(* is the arithmetic shift every supported build produces (Shr, a floor    *)
(* division), "& mask" on a two's complement int is the floor modulus.     *)
(***************************************************************************)
EXTENDS Integers, Sequences, FiniteSets, TLC

(***************************************************************************)
(* C integer arithmetic                                                    *)
(***************************************************************************)
Abs(a) == IF a < 0 THEN -a ELSE a

CDiv(a, b) ==
  IF (a >= 0) = (b > 0) THEN Abs(a) \div Abs(b) ELSE -(Abs(a) \div Abs(b))

CMod(a, b) == a - b * CDiv(a, b)

Pow2(k) == 2 ^ k

Shr(a, k) == a \div Pow2(k)

Shl(a, k) == a * Pow2(k)

POSMOD(x, n) == CMod(CMod(x, n) + n, n)

Min(a, b) == IF a < b THEN a ELSE b

\* f itself.  TLC evaluates a function expression anew at every application;
\* once it has been compared with a value TLC holds it as a table.
Tabulate(f) == IF f = << >> THEN f ELSE f

(***************************************************************************)
(* ntsc.h: the signal geometry                                             *)
(***************************************************************************)
CRT_CC_LINE == 2275
CRT_CB_FREQ == 4
CRT_HRES == (CRT_CC_LINE * CRT_CB_FREQ) \div 10
CRT_VRES == 262
CRT_INPUT_SIZE == CRT_HRES * CRT_VRES
CRT_TOP == 21
CRT_BOT == 261
CRT_LINES == CRT_BOT - CRT_TOP
CRT_CC_SAMPLES == 4
CRT_CC_VPER == 1
CRT_HSYNC_WINDOW == 8
CRT_VSYNC_WINDOW == 8
CRT_HSYNC_THRESH == 4
CRT_VSYNC_THRESH == 94

LINE_BEG == 0
FP_ns == 1500
SYNC_ns == 4700
BW_ns == 600
CB_ns == 2500
BP_ns == 1600
AV_ns == 52600
HB_ns == FP_ns + SYNC_ns + BW_ns + CB_ns + BP_ns
LINE_ns == FP_ns + SYNC_ns + BW_ns + CB_ns + BP_ns + AV_ns

ns2pos(ns) == (ns * CRT_HRES) \div LINE_ns

FP_BEG == ns2pos(0)
SYNC_BEG == ns2pos(FP_ns)
BW_BEG == ns2pos(FP_ns + SYNC_ns)
CB_BEG == ns2pos(FP_ns + SYNC_ns + BW_ns)
BP_BEG == ns2pos(FP_ns + SYNC_ns + BW_ns + CB_ns)
AV_BEG == ns2pos(HB_ns)
AV_LEN == ns2pos(AV_ns)
CB_CYCLES == 10

L_FREQ == 1431818
Y_FREQ == 420000
I_FREQ == 150000
Q_FREQ == 55000

WHITE_LEVEL == 100
BURST_LEVEL == 20
BLACK_LEVEL == 7
BLANK_LEVEL == 0
SYNC_LEVEL == -40

CRT_PIX_FORMAT_RGB == 0
CRT_PIX_FORMAT_BGR == 1
CRT_PIX_FORMAT_ARGB == 2
CRT_PIX_FORMAT_RGBA == 3
CRT_PIX_FORMAT_ABGR == 4
CRT_PIX_FORMAT_BGRA == 5

CRT_DO_BLOOM == 0
CRT_DO_VSYNC == 1
CRT_DO_HSYNC == 1

T14_2PI == 16384
T14_MASK == T14_2PI - 1
T14_PI == T14_2PI \div 2

(***************************************************************************)
(* ntsc.c: 14-bit interpolated sine/cosine                                 *)
(***************************************************************************)
sigpsin15 ==
  << 0, 3208, 6392, 9512, 12536, 15440, 18200, 20784, 23168,
     25328, 27240, 28896, 30272, 31352, 32136, 32608, 32768,
     32608 >>

sintabil8(n) ==
  LET f == n % 256
      i == Shr(n, 8) % 256
      a == sigpsin15[i + 1]
      b == sigpsin15[i + 2]
  IN a + Shr((b - a) * f, 8)

\* crt_sincos14(&s, &c, n) as the pair [s, c]
crt_sincos14(n0) ==
  LET n == n0 % T14_2PI
      h == n % Shr(T14_2PI, 1)
      q == IF h > Shr(T14_2PI, 2) - 1
             THEN [c |-> -sintabil8(h - Shr(T14_2PI, 2)),
                   s |-> sintabil8(Shr(T14_2PI, 1) - h)]
             ELSE [c |-> sintabil8(Shr(T14_2PI, 2) - h),
                   s |-> sintabil8(h)]
  IN IF n > Shr(T14_2PI, 1) - 1 THEN [c |-> -q.c, s |-> -q.s] ELSE q

\* crt_bpp4fmt with CRT_PIX_FORMAT_ARGB under the cases that return 3
crt_bpp4fmtArgb3(format) ==
  IF format \in {CRT_PIX_FORMAT_RGB, CRT_PIX_FORMAT_BGR, CRT_PIX_FORMAT_ARGB} THEN 3
  ELSE IF format \in {CRT_PIX_FORMAT_RGBA, CRT_PIX_FORMAT_ABGR, CRT_PIX_FORMAT_BGRA} THEN 4
  ELSE 0

\* crt_bpp4fmt with "default: return 4"
crt_bpp4fmtDefault4(format) ==
  IF format \in {CRT_PIX_FORMAT_RGB, CRT_PIX_FORMAT_BGR} THEN 3 ELSE 4

crt_bpp4fmt(format) ==
  CASE format \in {CRT_PIX_FORMAT_RGB, CRT_PIX_FORMAT_BGR} -> 3
    [] format \in {CRT_PIX_FORMAT_ARGB, CRT_PIX_FORMAT_RGBA,
                   CRT_PIX_FORMAT_ABGR, CRT_PIX_FORMAT_BGRA} -> 4
    [] OTHER -> 0

(***************************************************************************)
(* ntsc.c: fixed point e^x, used once, to set the IIR coefficients         *)
(***************************************************************************)
EXP_P == 11
EXP_ONE == Shl(1, EXP_P)
EXP_MASK == EXP_ONE - 1
EXP_PI == 6434

EXP_MUL(x, y) == Shr(x * y, EXP_P)

EXP_DIV(x, y) == CDiv(Shl(x, EXP_P), y)

e11 == << EXP_ONE, 5567, 15133, 41135, 111817 >>

\* res = EXP_MUL(res, e11[4]), k times
RECURSIVE ExpE4(_, _)
ExpE4(res, k) == IF k <= 0 THEN res ELSE ExpE4(EXP_MUL(res, e11[5]), k - 1)

\* the Taylor loop of expx, from iteration i: the value of acc at its end
RECURSIVE ExpTaylor(_, _, _, _, _)
ExpTaylor(i, n, nxt, acc, del) ==
  IF i >= 17 THEN acc
  ELSE LET acc1 == acc + CDiv(nxt, del)
           nxt1 == EXP_MUL(nxt, n)
           del1 == del * i
       IN IF del1 > nxt1 \/ nxt1 <= 0 \/ del1 <= 0
            THEN acc1
            ELSE ExpTaylor(i + 1, n, nxt1, acc1, del1)

expx(n0) ==
  IF n0 = 0 THEN EXP_ONE
  ELSE LET neg == n0 < 0
           n == IF neg THEN -n0 ELSE n0
           idx == Shr(n, EXP_P)
           r4 == ExpE4(EXP_ONE, CDiv(idx, 4))
           res == IF idx % 4 > 0 THEN EXP_MUL(r4, e11[(idx % 4) + 1]) ELSE r4
           acc == ExpTaylor(1, n % EXP_ONE, EXP_ONE, 0, 1)
           r == EXP_MUL(res, acc)
       IN IF neg THEN EXP_DIV(EXP_ONE, r) ELSE r

(***************************************************************************)
(* ntsc.c: the modulator's single-pole low-pass (struct IIRLP)             *)
(***************************************************************************)
\* init_iir: the coefficient c it stores (it also zeroes the history h)
init_iir(freq, limit) ==
  LET rate == CDiv(Shl(freq, 9), limit)
  IN EXP_ONE - expx(-CDiv(Shl(EXP_PI, 9), rate))

\* iirf: the history after one sample, which is also the value returned
iirf(c, h, s) == h + EXP_MUL(s - h, c)

(***************************************************************************)
(* ntsc.c: the demodulator's three band equalizer (struct EQF)             *)
(***************************************************************************)
HISTLEN == 3
HISTOLD == HISTLEN - 1
HISTNEW == 0
EQ_P == 16
EQ_R == Shl(1, EQ_P - 1)

kHz2L(kHz) == CDiv(CRT_HRES * (kHz * 100), L_FREQ)

EqFrac(f, rate) ==
  LET sn == crt_sincos14(CDiv(T14_PI * f, rate)).s
  IN IF EQ_P >= 15 THEN 2 * Shl(sn, EQ_P - 15) ELSE 2 * Shr(sn, 15 - EQ_P)

\* init_eq: the cutoffs and gains, and the zeroed filter state
init_eq(f_lo, f_hi, rate, g_lo, g_mid, g_hi) ==
  [lf |-> EqFrac(f_lo, rate), hf |-> EqFrac(f_hi, rate),
   g |-> << g_lo, g_mid, g_hi >>,
   fL |-> << 0, 0, 0, 0 >>, fH |-> << 0, 0, 0, 0 >>, h |-> << 0, 0, 0 >>]

reset_eq(f) ==
  [f EXCEPT !.fL = << 0, 0, 0, 0 >>, !.fH = << 0, 0, 0, 0 >>, !.h = << 0, 0, 0 >>]

\* one cascade of four poles: stage i is fed by the updated stage i - 1
EqCascade(k, st, s) ==
  LET a1 == st[1] + Shr(k * (s - st[1]) + EQ_R, EQ_P)
      a2 == st[2] + Shr(k * (a1 - st[2]) + EQ_R, EQ_P)
      a3 == st[3] + Shr(k * (a2 - st[3]) + EQ_R, EQ_P)
      a4 == st[4] + Shr(k * (a3 - st[4]) + EQ_R, EQ_P)
  IN << a1, a2, a3, a4 >>

\* eqf: the filter after sample s, and the value returned
eqf(f, s) ==
  LET fL == EqCascade(f.lf, f.fL, s)
      fH == EqCascade(f.hf, f.fH, s)
      r0 == Shr(fL[4] * f.g[1], EQ_P)
      r1 == Shr((fH[4] - fL[4]) * f.g[2], EQ_P)
      r2 == Shr((f.h[HISTOLD + 1] - fH[4]) * f.g[3], EQ_P)
  IN [f |-> [f EXCEPT !.fL = fL, !.fH = fH, !.h = << s, f.h[1], f.h[2] >>],
      r |-> r0 + r1 + r2]

\* crt_init: the three equalizers (CRT_CC_SAMPLES == 4)
eqY0 == init_eq(kHz2L(1500), kHz2L(3000), CRT_HRES, 65536, 8192, 9175)
eqI0 == init_eq(kHz2L(80), kHz2L(1150), CRT_HRES, 65536, 65536, 1311)
eqQ0 == init_eq(kHz2L(80), kHz2L(1000), CRT_HRES, 65536, 65536, 0)

(***************************************************************************)
(* Values of C objects                                                     *)
(***************************************************************************)
\* an int stored into a signed char
ToSChar(x) == ((x + 128) % 256) - 128

\* byte k (from 0) of an image; a read past its end is a read of whatever
\* the caller's memory holds there, here the byte oob
PixByte(data, k, oob) == IF k >= 0 /\ k < Len(data) THEN data[k + 1] ELSE oob

ZeroRow == [t \in 1..CRT_HRES |-> 0]

ZeroField == [n \in 0..(CRT_VRES - 1) |-> ZeroRow]

\* row[lo .. lo + Len(seg) - 1] += seg: the samples added to what the row held
PutSegAdd(row, lo, seg) ==
  SubSeq(row, 1, lo) \o [k \in 1..Len(seg) |-> ToSChar(row[lo + k] + seg[k])]
    \o SubSeq(row, lo + Len(seg) + 1, Len(row))

\* row[lo .. lo + Len(seg) - 1] = seg, columns counted from 0
PutSeg(row, lo, seg) ==
  SubSeq(row, 1, lo) \o seg \o SubSeq(row, lo + Len(seg) + 1, Len(row))

(***************************************************************************)
(* ntsc.c: crt_modulate                                                    *)
(***************************************************************************)
CC_PHASE(ln) == IF ln % 2 = 1 THEN -1 ELSE 1

\* the destination width of the CRT_DO_BLOOM build (lines 1280-1292)
DestWBloom(s) ==
  IF s.raw # 0 THEN Min(s.w, Shr(AV_LEN * 55500, 16)) ELSE Shr(AV_LEN * 55500, 16)

\* lines 1263-1304: the destination size
DestW(s) ==
  IF CRT_DO_BLOOM # 0
    THEN (IF s.raw # 0 THEN Min(s.w, Shr(AV_LEN * 55500, 16))
                       ELSE Shr(AV_LEN * 55500, 16))
    ELSE (IF s.raw # 0 THEN Min(s.w, AV_LEN) ELSE AV_LEN)

DestH(s) ==
  IF CRT_DO_BLOOM # 0
    THEN (IF s.raw # 0 THEN Min(s.h, Shr(CRT_LINES * 63500, 16))
                       ELSE Shr(CRT_LINES * 63500, 16))
    ELSE (IF s.raw # 0 THEN Min(s.h, Shr(CRT_LINES * 64500, 16))
                       ELSE Shr(CRT_LINES * 64500, 16))

\* lines 1305-1319: the three carrier tables, entry x at index x + 1
CcTable(s, off) ==
  Tabulate([x \in 1..CRT_CC_SAMPLES |->
     IF s.as_color # 0
       THEN Shr(crt_sincos14(CDiv((s.hue + (x - 1) * CDiv(360, CRT_CC_SAMPLES) + off)
                                    * 8192, 180)).s, 10)
       ELSE 0])

ccburst(s) == CcTable(s, 33)

ccmodI(s) == CcTable(s, 0)

ccmodQ(s) == CcTable(s, -90)

\* lines 1325-1334
ModXo(s) ==
  LET xo == AV_BEG + s.xoffset + CDiv(AV_LEN - DestW(s), 2)
  IN xo - (xo % 4)

ModYo(s) == CRT_TOP + s.yoffset + CDiv(CRT_LINES - DestH(s), 2)

\* line 1330 deciding by the field alone
InvPhaseField(s) == IF (s.field % 2) = 1 THEN 1 ELSE 0

\* line 1330
InvPhase(s) == IF (s.field % 2) = (s.frame % 2) THEN 1 ELSE 0

\* line 1379: the burst sample written at time t
BurstSample(s, t) ==
  LET off180 == CRT_CC_SAMPLES \div 2
      cb == ccburst(s)[((t + InvPhase(s) * off180) % CRT_CC_SAMPLES) + 1]
  IN ToSChar(Shr(BLANK_LEVEL + cb * BURST_LEVEL, 5))

\* lines 1344-1347 and 1356-1359: four runs SYNC, BLANK, SYNC, BLANK that end
\* at offs[k] percent of the line; a run that ends before t has started is empty
PulseRow(offs) ==
  [t1 \in 1..CRT_HRES |->
     LET t == t1 - 1
     IN IF t < CDiv(offs[1] * CRT_HRES, 100) THEN SYNC_LEVEL
        ELSE IF t < CDiv(offs[2] * CRT_HRES, 100) THEN BLANK_LEVEL
        ELSE IF t < CDiv(offs[3] * CRT_HRES, 100) THEN SYNC_LEVEL
        ELSE IF t < CDiv(offs[4] * CRT_HRES, 100) THEN BLANK_LEVEL
        ELSE 0]

\* lines 1364-1381 for t < AV_BEG: porch, sync tip, breezeway, burst, back porch
VideoFront(s) ==
  [t1 \in 1..AV_BEG |->
     LET t == t1 - 1
     IN IF t >= CB_BEG /\ t < CB_BEG + CB_CYCLES * CRT_CB_FREQ THEN BurstSample(s, t)
        ELSE IF t < SYNC_BEG THEN BLANK_LEVEL
        ELSE IF t < BW_BEG THEN SYNC_LEVEL
        ELSE BLANK_LEVEL]

BlankTail == [t1 \in 1..(CRT_HRES - AV_BEG) |-> BLANK_LEVEL]

\* SyncRow with the tail of every video line blanked, as line 1368 does
\* for the lines above CRT_TOP only
SyncRowBlankTail(n, old, equalizing, vsyncRow, front) ==
  IF n <= 3 \/ (n >= 7 /\ n <= 9) THEN equalizing
  ELSE IF n >= 4 /\ n <= 6 THEN vsyncRow
  ELSE front \o BlankTail

\* SyncRow with "n < 3" in line 1342
SyncRowThreeLines(n, old, equalizing, vsyncRow, front) ==
  IF n < 3 \/ (n >= 7 /\ n <= 9) THEN equalizing
  ELSE IF n >= 4 /\ n <= 6 THEN vsyncRow
  ELSE IF n < CRT_TOP THEN front \o BlankTail
  ELSE front \o SubSeq(old, AV_BEG + 1, CRT_HRES)

\* lines 1336-1383: row n after the sync loop; old is the row before the call
SyncRow(n, old, equalizing, vsyncRow, front) ==
  IF n <= 3 \/ (n >= 7 /\ n <= 9) THEN equalizing
  ELSE IF n >= 4 /\ n <= 6 THEN vsyncRow
  ELSE IF n < CRT_TOP THEN front \o BlankTail
  ELSE front \o SubSeq(old, AV_BEG + 1, CRT_HRES)

\* lines 1349-1350 with the offsets of the equalizing pulses of lines 1344-1347
VsyncOffsEqualizing(s) == << 4, 50, 54, 100 >>

\* lines 1349-1354 without the test of the field: the pulse of the even field
VsyncOffsEven(s) == << 46, 50, 96, 100 >>

\* lines 1349-1354: where the levels of a vertical sync line change
VsyncOffs(s) == IF s.field % 2 = 1 THEN << 4, 50, 96, 100 >> ELSE << 46, 50, 96, 100 >>

SyncPass(an, s) ==
  LET equalizing == Tabulate(PulseRow(<< 4, 50, 54, 100 >>))
      vsyncRow == Tabulate(PulseRow(VsyncOffs(s)))
      front == Tabulate(VideoFront(s))
  IN [n \in 0..(CRT_VRES - 1) |-> SyncRow(n, an[n], equalizing, vsyncRow, front)]

\* line 1380 after the last line: iccf[x], the burst sample of phase x
Iccf(s) ==
  [x \in 1..CRT_CC_SAMPLES |->
     BurstSample(s, CHOOSE t \in CB_BEG..(CB_BEG + CRT_CC_SAMPLES - 1) :
                        t % CRT_CC_SAMPLES = x - 1)]

\* lines 1409-1436: the R, G, B of the pixel at byte offset k of the image
PixRGB(s, k, oob) ==
  LET p(i) == PixByte(s.data, k + i, oob)
  IN CASE s.format \in {CRT_PIX_FORMAT_RGB, CRT_PIX_FORMAT_RGBA} ->
            [r |-> p(0), g |-> p(1), b |-> p(2)]
       [] s.format \in {CRT_PIX_FORMAT_BGR, CRT_PIX_FORMAT_BGRA} ->
            [r |-> p(2), g |-> p(1), b |-> p(0)]
       [] s.format = CRT_PIX_FORMAT_ARGB ->
            [r |-> p(1), g |-> p(2), b |-> p(3)]
       [] s.format = CRT_PIX_FORMAT_ABGR ->
            [r |-> p(3), g |-> p(2), b |-> p(1)]
       [] OTHER -> [r |-> 0, g |-> 0, b |-> 0]

\* lines 1389-1396: the source row of destination row y, before "sy *= s->w"
\* line 1389 without the "+ desth" that rounds the half line up
FieldOffsetNoRound(s) ==
  CDiv(CDiv((s.field % 2) * s.h, DestH(s)), 2)

\* line 1389
FieldOffset(s) ==
  CDiv(CDiv((s.field % 2) * s.h + DestH(s), DestH(s)), 2)

SrcRow(s, y) ==
  LET sy == CDiv(y * s.h, DestH(s)) + FieldOffset(s)
  IN IF sy >= s.h THEN s.h ELSE sy

\* line 1409: the source column of destination column x
SrcCol(s, destw, x) == CDiv(x * s.w, destw)

\* what the loop over x reads and no sample changes: the tables, the phase,
\* the offsets, the destination width, the levels and the coefficients
ModCtx(s, bp, wp, c) ==
  [xo |-> ModXo(s), destw |-> DestW(s), bpp |-> crt_bpp4fmt(s.format),
   ph |-> CC_PHASE(InvPhase(s)), modI |-> ccmodI(s), modQ |-> ccmodQ(s),
   black |-> BLACK_LEVEL + bp, white |-> CDiv(WHITE_LEVEL * wp, 100), c |-> c]

\* ModSample without the clamp of lines 1450-1451
ModSampleNoClamp(s, m, oob, sy, x, st) ==
  LET pix == PixRGB(s, (SrcCol(s, m.destw, x) + sy * s.w) * m.bpp, oob)
      fy0 == Shr(19595 * pix.r + 38470 * pix.g + 7471 * pix.b, 14)
      fi0 == Shr(39059 * pix.r - 18022 * pix.g - 21103 * pix.b, 14)
      fq0 == Shr(13894 * pix.r - 34275 * pix.g + 20382 * pix.b, 14)
      xoff == CMod(x + m.xo, CRT_CC_SAMPLES)
      hy == iirf(m.c.y, st.y, fy0)
      hi == iirf(m.c.i, st.i, fi0)
      hq == iirf(m.c.q, st.q, fq0)
      fi == Shr(hi * m.ph * m.modI[xoff + 1], 4)
      fq == Shr(hq * m.ph * m.modQ[xoff + 1], 4)
  IN [st |-> [y |-> hy, i |-> hi, q |-> hq],
      v |-> ToSChar(m.black + Shr((hy + fi + fq) * m.white, 10))]

\* lines 1402-1453 for one x: st is the history of iirY, iirI, iirQ before the
\* sample; the result holds their history after it and the sample stored
ModSample(s, m, oob, sy, x, st) ==
  LET pix == PixRGB(s, (SrcCol(s, m.destw, x) + sy * s.w) * m.bpp, oob)
      fy0 == Shr(19595 * pix.r + 38470 * pix.g + 7471 * pix.b, 14)
      fi0 == Shr(39059 * pix.r - 18022 * pix.g - 21103 * pix.b, 14)
      fq0 == Shr(13894 * pix.r - 34275 * pix.g + 20382 * pix.b, 14)
      xoff == CMod(x + m.xo, CRT_CC_SAMPLES)
      hy == iirf(m.c.y, st.y, fy0)
      hi == iirf(m.c.i, st.i, fi0)
      hq == iirf(m.c.q, st.q, fq0)
      fi == Shr(hi * m.ph * m.modI[xoff + 1], 4)
      fq == Shr(hq * m.ph * m.modQ[xoff + 1], 4)
      ire0 == m.black + Shr((hy + fi + fq) * m.white, 10)
      ire == IF ire0 < 0 THEN 0 ELSE IF ire0 > 110 THEN 110 ELSE ire0
  IN [st |-> [y |-> hy, i |-> hi, q |-> hq], v |-> ToSChar(ire)]

\* the loop over x = lo .. hi of one scanline, in order: the samples written
\* and the filter history after the last one
RECURSIVE ModRun(_, _, _, _, _, _, _)
ModRun(s, m, oob, sy, lo, hi, st) ==
  IF lo > hi THEN [st |-> st, out |-> << >>]
  ELSE IF lo = hi
    THEN LET r == ModSample(s, m, oob, sy, lo, st)
         IN [st |-> r.st, out |-> << r.v >>]
    ELSE LET mid == (lo + hi) \div 2
             a == ModRun(s, m, oob, sy, lo, mid, st)
             b == ModRun(s, m, oob, sy, mid + 1, hi, a.st)
         IN IF Len(a.out) = 0 THEN b      \* the first half is evaluated first
            ELSE [st |-> b.st, out |-> a.out \o b.out]

\* lines 1398-1400 and the loop over x: the samples of a scanline read from
\* source row sy, the filters reset at its start
ModLine(s, m, oob, sy) ==
  ModRun(s, m, oob, sy, 0, m.destw - 1, [y |-> 0, i |-> 0, q |-> 0]).out

\* lines 1385-1455: the destination rows, written over the result of the sync
\* loop.  Rows that read the same source row hold the same samples.
VideoPass(an, s, bp, wp, c, oob) ==
  LET m == ModCtx(s, bp, wp, c)
      yo == ModYo(s)
      bySrc == Tabulate([sy \in 0..s.h |-> ModLine(s, m, oob, sy)])
  IN [n \in 0..(CRT_VRES - 1) |->
        IF n >= yo /\ n < yo + DestH(s)
          THEN PutSeg(an[n], m.xo, bySrc[SrcRow(s, n - yo)])
          ELSE an[n]]

\* the destination rectangle lies inside the rows it is written to
RectInside(s) ==
  /\ ModXo(s) >= 0 /\ ModXo(s) + DestW(s) <= CRT_HRES
  /\ ModYo(s) >= 0 /\ ModYo(s) + DestH(s) <= CRT_VRES

\* lines 1456-1460 with "<< 6" in line 1458
SeedCcfShift6(s) ==
  [n \in 0..(CRT_CC_VPER - 1) |-> [x \in 1..CRT_CC_SAMPLES |-> Shl(Iccf(s)[x], 6)]]

\* lines 1456-1460
SeedCcf(s) ==
  [n \in 0..(CRT_CC_VPER - 1) |-> [x \in 1..CRT_CC_SAMPLES |-> Shl(Iccf(s)[x], 7)]]

\* lines 1273-1278: the coefficients of iirY, iirI, iirQ after the latch
LatchIir(s, c) ==
  IF s.iirs_initialized = 0
    THEN [y |-> init_iir(L_FREQ, Y_FREQ), i |-> init_iir(L_FREQ, I_FREQ),
          q |-> init_iir(L_FREQ, Q_FREQ)]
    ELSE c

\* crt_modulate with a valid format: the analog buffer at its end
ModAnalog(an, s, bp, wp, c, oob) ==
  VideoPass(SyncPass(an, s), s, bp, wp, LatchIir(s, c), oob)

(***************************************************************************)
(* ntsc.c: the noise generator of crt_demodulate                           *)
(*                                                                         *)
(* rn is a 32-bit int and "214019 * rn + 140327895" is evaluated in 32     *)
(* bits; the builds of this program wrap the product, which is what is     *)
(* modelled.  A word is held as two 16-bit halves so that no intermediate  *)
(* product leaves the range of the checker's integers.                     *)
(***************************************************************************)
Half == 65536

RnWord(x) == [hi |-> (x \div Half) % Half, lo |-> x % Half]

RnInt(r) == (IF r.hi >= Half \div 2 THEN r.hi - Half ELSE r.hi) * Half + r.lo

\* line 845: 214019 = 3 * 65536 + 17411, 140327895 = 2141 * 65536 + 15319
LcgNext(r) ==
  LET low == r.lo * 17411 + 15319
  IN [hi |-> (r.hi * 17411 + r.lo * 3 + (low \div Half) + 2141) % Half,
      lo |-> low % Half]

\* the low 16 bits, and the bits above them, of a product of two halves
MulLo16(a, b) == (a * (b % 256) + ((a * (b \div 256)) % 256) * 256) % Half

MulHi16(a, b) ==
  LET p1 == a * (b % 256)
      p2 == a * (b \div 256)
  IN (p2 \div 256) + (((p2 % 256) * 256 + p1) \div Half)

Mul32(x, y) ==
  [hi |-> (MulHi16(x.lo, y.lo) + MulLo16(x.hi, y.lo) + MulLo16(x.lo, y.hi)) % Half,
   lo |-> MulLo16(x.lo, y.lo)]

Add32(x, y) ==
  [hi |-> (x.hi + y.hi + ((x.lo + y.lo) \div Half)) % Half,
   lo |-> (x.lo + y.lo) % Half]

\* the largest noise whose product in line 848 fits an int whatever the
\* generator holds: 128 * 16777215 < 2^31
NoiseFits == 16777215

\* line 848 with ">> 7"
NoiseTermShift7(r, noise) ==
  IF noise <= NoiseFits
    THEN Shr(((r.hi % 256) - 127) * noise, 7)
    ELSE Shr(RnInt(Mul32(RnWord((r.hi % 256) - 127), RnWord(noise))), 7)

\* line 848: the noise added to a sample when the generator holds r.  The
\* product is an int: beyond NoiseFits it is computed in 32 bits
NoiseTerm(r, noise) ==
  IF noise <= NoiseFits
    THEN Shr(((r.hi % 256) - 127) * noise, 8)
    ELSE Shr(RnInt(Mul32(RnWord((r.hi % 256) - 127), RnWord(noise))), 8)

\* lines 849-850 without line 850
Clamp127Above(x) == IF x > 127 THEN 127 ELSE x

\* lines 849-850
Clamp127(x) == IF x > 127 THEN 127 ELSE IF x < -127 THEN -127 ELSE x

\* n iterations of line 845 are the map r |-> a * r + c (mod 2^32); the a
\* and c of 2 * m + odd iterations from those, h, of m iterations
LcgTwice(h, odd) ==
  LET a2 == Mul32(h.a, h.a)
      c2 == Add32(Mul32(h.a, h.c), h.c)
  IN IF odd = 0 THEN [a |-> a2, c |-> c2]
     ELSE [a |-> Mul32(RnWord(214019), a2),
           c |-> Add32(Mul32(RnWord(214019), c2), RnWord(140327895))]

RECURSIVE LcgPow(_)
LcgPow(n) ==
  IF n = 0 THEN [a |-> RnWord(1), c |-> RnWord(0)]
  ELSE LET h == LcgPow(n \div 8)
           h1 == LcgTwice(h, (n \div 4) % 2)
           h2 == LcgTwice(h1, (n \div 2) % 2)
       IN IF h.a.lo < 0 \/ h1.a.lo < 0 \/ h2.a.lo < 0 THEN h
          ELSE LcgTwice(h2, n % 2)

LcgField == LcgPow(CRT_INPUT_SIZE)

\* the generator advanced once a call, not once a sample
LcgAdvanceOnce(rn) == RnInt(LcgNext(RnWord(rn)))

\* lines 843-853 for rn alone: its value after the loop over the whole field
LcgAdvance(rn) == RnInt(Add32(Mul32(LcgField.a, RnWord(rn)), LcgField.c))

\* line 845 executed n times in a row, one execution at a time
RECURSIVE LcgSteps(_, _)
LcgSteps(r, n) ==
  IF n = 0 THEN r
  ELSE IF n = 1 THEN LcgNext(r)
  ELSE LET a == LcgSteps(r, n \div 2)
       IN IF a.lo < 0 THEN a ELSE LcgSteps(a, n - (n \div 2))

\* lines 845-851 for the samples lo .. hi (columns from 1) of one row
RECURSIVE NoiseRun(_, _, _, _, _)
NoiseRun(r, noise, row, lo, hi) ==
  IF lo = hi
    THEN LET r1 == LcgNext(r)
         IN [rn |-> r1, out |-> << Clamp127(row[lo] + NoiseTerm(r1, noise)) >>]
    ELSE LET mid == (lo + hi) \div 2
             a == NoiseRun(r, noise, row, lo, mid)
             b == NoiseRun(a.rn, noise, row, mid + 1, hi)
         IN IF Len(a.out) = 0 THEN b
            ELSE [rn |-> b.rn, out |-> a.out \o b.out]

\* the generator when the loop reaches sample i of the field
LcgAt(rn, i) ==
  LET f == LcgPow(i)
  IN Add32(Mul32(f.a, RnWord(rn)), f.c)

\* lines 843-853: inp and rn after the loop.  With noise = 0 the term added
\* to a sample is 0 whatever the generator holds.
NoisePass(an, noise, rn) ==
  [rn |-> LcgAdvance(rn),
   inp |-> IF noise = 0
             THEN [n \in 0..(CRT_VRES - 1) |->
                     [t \in 1..CRT_HRES |-> Clamp127(an[n][t])]]
             ELSE Tabulate([n \in 0..(CRT_VRES - 1) |->
                     NoiseRun(LcgAt(rn, n * CRT_HRES), noise, an[n], 1, CRT_HRES).out])]

(***************************************************************************)
(* ntsc.c: crt_demodulate after the noise loop                             *)
(***************************************************************************)
\* sig[k] for a pointer into inp: sample idx of the buffer.  A read outside
\* the buffer reads memory that is not part of it, here the value oob.
InpAt(inp, idx, oob) ==
  IF idx >= 0 /\ idx < CRT_INPUT_SIZE
    THEN inp[idx \div CRT_HRES][(idx % CRT_HRES) + 1]
    ELSE oob

\* VsyncScan with "s < (CRT_VSYNC_THRESH * SYNC_LEVEL)" in line 873
RECURSIVE VsyncScanStrict(_, _, _, _)
VsyncScanStrict(row, lo, hi, s) ==
  IF lo = hi
    THEN LET s1 == s + row[lo + 1]
         IN [hit |-> IF s1 < CRT_VSYNC_THRESH * SYNC_LEVEL THEN lo ELSE -1,
             s |-> s1]
    ELSE LET mid == (lo + hi) \div 2
             a == VsyncScanStrict(row, lo, mid, s)
         IN IF a.hit >= 0 THEN a ELSE VsyncScanStrict(row, mid + 1, hi, a.s)

\* lines 868-876: the first j in lo .. hi at which the running sum of the row
\* is at or below the threshold (hit = -1 if there is none), s the sum so far
RECURSIVE VsyncScan(_, _, _, _)
VsyncScan(row, lo, hi, s) ==
  IF lo = hi
    THEN LET s1 == s + row[lo + 1]
         IN [hit |-> IF s1 <= CRT_VSYNC_THRESH * SYNC_LEVEL THEN lo ELSE -1,
             s |-> s1]
    ELSE LET mid == (lo + hi) \div 2
             a == VsyncScan(row, lo, mid, s)
         IN IF a.hit >= 0 THEN a ELSE VsyncScan(row, mid + 1, hi, a.s)

\* lines 864-877 for i = lo .. hi: the first i whose line reaches the
\* threshold, with the j at which it does (hit = FALSE if there is none)
RECURSIVE VsyncWindow(_, _, _, _)
VsyncWindow(inp, vsync, lo, hi) ==
  IF lo = hi
    THEN LET r == VsyncScan(inp[POSMOD(vsync + lo, CRT_VRES)], 0, CRT_HRES - 1, 0)
         IN [hit |-> r.hit >= 0, i |-> lo, j |-> r.hit]
    ELSE LET mid == (lo + hi) \div 2
             a == VsyncWindow(inp, vsync, lo, mid)
         IN IF a.hit THEN a ELSE VsyncWindow(inp, vsync, mid + 1, hi)

\* VsyncSearch that keeps the vsync it had when no line reaches the threshold
VsyncSearchKeep(inp, vsync) ==
  LET r == VsyncWindow(inp, vsync, -CRT_VSYNC_WINDOW, CRT_VSYNC_WINDOW - 1)
  IN IF r.hit THEN [line |-> POSMOD(vsync + r.i, CRT_VRES), j |-> r.j]
     ELSE [line |-> vsync, j |-> CRT_HRES]

\* lines 864-878: line and j at the label vsync_found; when the loops end
\* without a jump, line is that of the last i and j is CRT_HRES
VsyncSearch(inp, vsync) ==
  LET r == VsyncWindow(inp, vsync, -CRT_VSYNC_WINDOW, CRT_VSYNC_WINDOW - 1)
  IN IF r.hit THEN [line |-> POSMOD(vsync + r.i, CRT_VRES), j |-> r.j]
     ELSE [line |-> POSMOD(vsync + CRT_VSYNC_WINDOW - 1, CRT_VRES), j |-> CRT_HRES]

\* lines 891-892
OutRatio(outh) == Shr(CDiv(Shl(outh, 16), CRT_LINES) + 32768, 16)

\* lines 927-932 for i = lo .. hi: the first i at which the running sum is at
\* or below the threshold (hit = FALSE if there is none), s the sum so far
RECURSIVE HsyncScan(_, _, _, _, _, _)
HsyncScan(inp, base, oob, lo, hi, s) ==
  IF lo = hi
    THEN LET s1 == s + InpAt(inp, base + SYNC_BEG + lo, oob)
         IN [hit |-> s1 <= CRT_HSYNC_THRESH * SYNC_LEVEL, i |-> lo, s |-> s1]
    ELSE LET mid == (lo + hi) \div 2
             a == HsyncScan(inp, base, oob, lo, mid, s)
         IN IF a.hit THEN a ELSE HsyncScan(inp, base, oob, mid + 1, hi, a.s)

\* lines 926-932: the value of i when the loop is left
HsyncSearch(inp, base, oob) ==
  LET r == HsyncScan(inp, base, oob, -CRT_HSYNC_WINDOW, CRT_HSYNC_WINDOW - 1, 0)
  IN IF r.hit THEN r.i ELSE CRT_HSYNC_WINDOW

\* CcfLoop without the decay "* 127 / 128" of line 951
RECURSIVE CcfLoopNoDecay(_, _, _, _, _, _)
CcfLoopNoDecay(ccr, inp, base, oob, lo, hi) ==
  IF lo = hi
    THEN LET x == (lo % CRT_CC_SAMPLES) + 1
         IN [ccr EXCEPT ![x] = ccr[x] + InpAt(inp, base + lo, oob)]
    ELSE LET mid == (lo + hi) \div 2
             a == CcfLoopNoDecay(ccr, inp, base, oob, lo, mid)
         IN IF a[1] = 0 THEN CcfLoopNoDecay(a, inp, base, oob, mid + 1, hi)
            ELSE CcfLoopNoDecay(a, inp, base, oob, mid + 1, hi)

\* lines 949-954 for i = lo .. hi: ccr after them, entry x at index x + 1
RECURSIVE CcfLoop(_, _, _, _, _, _)
CcfLoop(ccr, inp, base, oob, lo, hi) ==
  IF lo = hi
    THEN LET x == (lo % CRT_CC_SAMPLES) + 1
             p == CDiv(ccr[x] * 127, 128)
             n == InpAt(inp, base + lo, oob)
         IN [ccr EXCEPT ![x] = p + n]
    ELSE LET mid == (lo + hi) \div 2
             a == CcfLoop(ccr, inp, base, oob, lo, mid)
         IN IF a[1] = 0 THEN CcfLoop(a, inp, base, oob, mid + 1, hi)
            ELSE CcfLoop(a, inp, base, oob, mid + 1, hi)

\* lines 956-966
Wave(ccr, hsync, huesn, huecs, saturation) ==
  LET phasealign == POSMOD(hsync, CRT_CC_SAMPLES)
      at(k) == ccr[((phasealign + k) % 4) + 1]
      dci == at(1) - at(3)
      dcq == at(2) - at(0)
      w0 == Shr(dci * huecs - dcq * huesn, 4) * saturation
      w1 == Shr(dcq * huecs + dci * huesn, 4) * saturation
  IN << w0, w1, -w0, -w1 >>

\* lines 1027-1029 and 1034-1036: the filters y, i, q after a sample and the
\* entry of out[] made of their results
EqStep(y, i, q) ==
  [f |-> [y |-> y.f, i |-> i.f, q |-> q.f],
   out |-> << [y |-> Shl(y.r, 4), i |-> Shr(i.r, 3), q |-> Shr(q.r, 3)] >>]

\* lines 1026-1030 for i = lo .. hi: f holds eqY, eqI, eqQ before sample lo,
\* the result holds them after sample hi and the entries out[lo .. hi]
RECURSIVE EqRun(_, _, _, _, _, _, _, _)
EqRun(inp, pos, oob, bright, wave, lo, hi, f) ==
  IF lo = hi
    THEN EqStep(eqf(f.y, InpAt(inp, pos + lo, oob) + bright),
                eqf(f.i, Shr(InpAt(inp, pos + lo, oob) * wave[(lo % 4) + 1], 9)),
                eqf(f.q, Shr(InpAt(inp, pos + lo, oob) * wave[((lo + 3) % 4) + 1], 9)))
    ELSE LET mid == (lo + hi) \div 2
             a == EqRun(inp, pos, oob, bright, wave, lo, mid, f)
             b == EqRun(inp, pos, oob, bright, wave, mid + 1, hi, a.f)
         IN IF Len(a.out) = 0 THEN b
            ELSE [f |-> b.f, out |-> a.out \o b.out]

\* "x & 0xfefeff" for a 24-bit colour x
\* "& 0xffffff": no bit is cleared before the shift
Mask_ffffff(x) == x

\* "& 0xfefeff" (line 1095) of a colour below 2^24
Mask_fefeff(x) == x - ((x \div 65536) % 2) * 65536 - ((x \div 256) % 2) * 256

Clamp255(x) == IF x < 0 THEN 0 ELSE IF x > 255 THEN 255 ELSE x

\* lines 1074-1092: the colour held by the pixel bytes cL
OldColour(fmt, cL) ==
  CASE fmt \in {CRT_PIX_FORMAT_RGB, CRT_PIX_FORMAT_RGBA} ->
         cL[1] * 65536 + cL[2] * 256 + cL[3]
    [] fmt \in {CRT_PIX_FORMAT_BGR, CRT_PIX_FORMAT_BGRA} ->
         cL[3] * 65536 + cL[2] * 256 + cL[1]
    [] fmt = CRT_PIX_FORMAT_ARGB -> cL[2] * 65536 + cL[3] * 256 + cL[4]
    [] fmt = CRT_PIX_FORMAT_ABGR -> cL[4] * 65536 + cL[3] * 256 + cL[2]
    [] OTHER -> 0

\* lines 1100-1125: the pixel bytes cL after the colour bb is stored
StoreColour(fmt, cL, bb) ==
  LET hi == (bb \div 65536) % 256
      mid == (bb \div 256) % 256
      lo == bb % 256
  IN CASE fmt \in {CRT_PIX_FORMAT_RGB, CRT_PIX_FORMAT_RGBA} ->
            [cL EXCEPT ![1] = hi, ![2] = mid, ![3] = lo]
       [] fmt \in {CRT_PIX_FORMAT_BGR, CRT_PIX_FORMAT_BGRA} ->
            [cL EXCEPT ![1] = lo, ![2] = mid, ![3] = hi]
       [] fmt = CRT_PIX_FORMAT_ARGB -> [cL EXCEPT ![2] = hi, ![3] = mid, ![4] = lo]
       [] fmt = CRT_PIX_FORMAT_ABGR -> [cL EXCEPT ![2] = lo, ![3] = mid, ![4] = hi]
       [] OTHER -> cL

\* lines 1047-1069: the r, g, b of the pixel at beam position pos; o[k + 1]
\* is the entry out[k] of the scanline
BeamRGB(o, pos, contrast) ==
  LET R == pos % 4096
      L == 4095 - R
      s == pos \div 4096
      A == o[s + 1]
      B == o[s + 2]
      y == Shr(A.y * L, 2) + Shr(B.y * R, 2)
      i == Shr(A.i * L, 14) + Shr(B.i * R, 14)
      q == Shr(A.q * L, 14) + Shr(B.q * R, 14)
  IN [r |-> Clamp255(Shr(Shr(y + 3879 * i + 2556 * q, 12) * contrast, 8)),
      g |-> Clamp255(Shr(Shr(y - 1126 * i - 2605 * q, 12) * contrast, 8)),
      b |-> Clamp255(Shr(Shr(y - 4530 * i + 7021 * q, 12) * contrast, 8))]

\* DrawPixel with the test of v->blend (line 1071) always taken
DrawPixelAlwaysBlend(d, o, pos, cL) ==
  LET c == BeamRGB(o, pos, d.contrast)
      aa == c.r * 65536 + c.g * 256 + c.b
  IN StoreColour(d.fmt, cL,
                 Shr(Mask_fefeff(aa), 1) + Shr(Mask_fefeff(OldColour(d.fmt, cL)), 1))

\* lines 1071-1125: the pixel bytes cL after the pixel is drawn
DrawPixel(d, o, pos, cL) ==
  LET c == BeamRGB(o, pos, d.contrast)
      aa == c.r * 65536 + c.g * 256 + c.b
      bb == IF d.blend # 0
              THEN Shr(Mask_fefeff(aa), 1) + Shr(Mask_fefeff(OldColour(d.fmt, cL)), 1)
              ELSE aa
  IN StoreColour(d.fmt, cL, bb)

\* lines 1015-1017
BeamDx(outw) == CDiv(Shl(AV_LEN - 1, 12), outw)

ScanR == Shl(AV_LEN - 1, 12)

\* the last entry of out[] that the pixel loop of a scanline reads
LastRead(outw) == (((outw - 1) * BeamDx(outw)) \div 4096) + 1

\* lines 1039-1128: the bytes of an output row after the pixel loop
DrawRow(d, o, row) ==
  [b \in 1..Len(row) |->
     LET k == (b - 1) \div d.bpp
     IN IF k * BeamDx(d.outw) < ScanR
          THEN DrawPixel(d, o, k * BeamDx(d.outw),
                         SubSeq(row, k * d.bpp + 1, (k + 1) * d.bpp))[((b - 1) % d.bpp) + 1]
          ELSE row[b]]

\* what the loop over the lines reads and does not change
DemodCtx(v, vsync, j, oob) ==
  [outw |-> v.outw, outh |-> v.outh, v_fac |-> v.v_fac, fmt |-> v.out_format,
   bpp |-> crt_bpp4fmt(v.out_format), scanlines |-> v.scanlines, blend |-> v.blend,
   contrast |-> v.contrast, saturation |-> v.saturation,
   bright |-> v.brightness - (BLACK_LEVEL + v.black_point),
   huesn |-> Shr(crt_sincos14(CDiv((CMod(v.hue, 360) + 33) * 8192, 180)).s, 11),
   huecs |-> Shr(crt_sincos14(CDiv((CMod(v.hue, 360) + 33) * 8192, 180)).c, 11),
   vsync |-> vsync,
   field |-> (IF j > CRT_HRES \div 2 THEN 1 ELSE 0) * CDiv(OutRatio(v.outh), 2),
   xnudge |-> -3, ynudge |-> 3, oob |-> oob]

\* line 1131 with "s < end": the gap of a scanline is filled as well
CopyEndNoGap(d, end) == end

\* line 1131: the row after the last one a line copies its row into
CopyEnd(d, end) == end - d.scanlines

\* line 915: the first output row of a line
BandBeg(d, line) == CDiv((line - CRT_TOP) * (d.outh + d.v_fac), CRT_LINES) + d.field

\* lines 916 and 919: the row after the last output row of a line
BandEnd(d, line) ==
  Min(CDiv((line - CRT_TOP + 1) * (d.outh + d.v_fac), CRT_LINES) + d.field, d.outh)

\* lines 915-1133, one pass of the loop over the lines: st holds hsync, ccf,
\* the output rows, whether a read has left inp, and in hs the hsync that
\* line 934 stored for each line so far
DemodLine(d, inp, line, st) ==
  LET beg == BandBeg(d, line)
      end == BandEnd(d, line)
      ln == POSMOD(line + d.vsync, CRT_VRES) * CRT_HRES
      i == HsyncSearch(inp, ln + st.hsync, d.oob)
      hsync == IF CRT_DO_HSYNC # 0 THEN POSMOD(i + st.hsync, CRT_HRES) ELSE 0
      xpos == POSMOD(AV_BEG + hsync + d.xnudge, CRT_HRES)
      ypos == POSMOD(line + d.vsync + d.ynudge, CRT_VRES)
      pos == xpos + ypos * CRT_HRES
      n == ypos % CRT_CC_VPER
      cbase == ln + (hsync - (hsync % 4))
      ccr == CcfLoop(st.ccf[n], inp, cbase, d.oob, CB_BEG,
                     CB_BEG + CB_CYCLES * CRT_CB_FREQ - 1)
      wave == Wave(ccr, hsync, d.huesn, d.huecs, d.saturation)
      o == EqRun(inp, pos, d.oob, d.bright, wave, 0, LastRead(d.outw),
                 [y |-> reset_eq(eqY0), i |-> reset_eq(eqI0), q |-> reset_eq(eqQ0)]).out
      row == DrawRow(d, o, st.out[beg])
      outside == \/ ln + st.hsync + SYNC_BEG + Min(i, CRT_HSYNC_WINDOW - 1) >= CRT_INPUT_SIZE
                 \/ cbase + CB_BEG + CB_CYCLES * CRT_CB_FREQ - 1 >= CRT_INPUT_SIZE
                 \/ pos + AV_LEN - 1 >= CRT_INPUT_SIZE
  IN IF beg >= d.outh THEN st
     ELSE [hsync |-> hsync,
           hs |-> Append(st.hs, hsync),
           ccf |-> [st.ccf EXCEPT ![n] = ccr],
           out |-> IF CopyEnd(d, end) <= beg + 1
                     THEN [st.out EXCEPT ![beg] = row]
                     ELSE [r \in DOMAIN st.out |->
                             IF r = beg \/ (r > beg /\ r < CopyEnd(d, end))
                               THEN row ELSE st.out[r]],
           outside |-> st.outside \/ outside]

\* the loop over the lines lo .. hi, in order
RECURSIVE DemodLines(_, _, _, _, _)
DemodLines(d, inp, lo, hi, st) ==
  IF lo = hi THEN DemodLine(d, inp, lo, st)
  ELSE LET mid == (lo + hi) \div 2
           a == DemodLines(d, inp, lo, mid, st)
       IN IF a.outside THEN DemodLines(d, inp, mid + 1, hi, a)
          ELSE DemodLines(d, inp, mid + 1, hi, a)

\* DemodDone with the brightness the lines were drawn with (line 861) stored
\* in the CRT
DemodDoneStoreBright(v, np, vsync, r) ==
  [v |-> [v EXCEPT !.rn = np.rn, !.vsync = vsync, !.hsync = r.hsync,
                   !.brightness = v.brightness - (BLACK_LEVEL + v.black_point)],
   inp |-> np.inp, ccf |-> r.ccf, out |-> r.out, outside |-> r.outside, hs |-> r.hs]

\* lines 1134-1135: what the call leaves in the CRT; np is the result of the
\* noise loop, r that of the loop over the lines
DemodDone(v, np, vsync, r) ==
  [v |-> [v EXCEPT !.rn = np.rn, !.vsync = vsync, !.hsync = r.hsync],
   inp |-> np.inp, ccf |-> r.ccf, out |-> r.out, outside |-> r.outside, hs |-> r.hs]

\* lines 879-1133: vs is the result of the search for the vertical sync
DemodSynced(v, ccf, out, oob, np, vs) ==
  DemodDone(v, np, IF CRT_DO_VSYNC # 0 THEN vs.line ELSE -3,
            DemodLines(DemodCtx(v, IF CRT_DO_VSYNC # 0 THEN vs.line ELSE -3, vs.j, oob),
                       np.inp, CRT_TOP, CRT_BOT - 1,
                       [hsync |-> v.hsync, hs |-> << >>, ccf |-> ccf, out |-> out,
                        outside |-> FALSE]))

\* lines 855-1135: crt_demodulate after the noise loop
DemodField(v, ccf, out, oob, np) ==
  DemodSynced(v, ccf, out, oob, np, VsyncSearch(np.inp, v.vsync))

\* crt_demodulate with a valid output format
Demodulate(v, analog, ccf, out, noise, oob) ==
  DemodField(v, ccf, out, oob, NoisePass(analog, noise, v.rn))

(***************************************************************************)
(* ntsc.c: crt_resize, crt_reset, crt_init                                 *)
(***************************************************************************)
crt_resize(v, w, h, f) == [v EXCEPT !.outw = w, !.outh = h, !.out_format = f]

\* crt_reset without lines 780-781
crt_resetKnobs(v) ==
  [v EXCEPT !.hue = 0, !.saturation = 10, !.brightness = 0, !.contrast = 180,
            !.black_point = 0, !.white_point = 100]

crt_reset(v) ==
  [v EXCEPT !.hue = 0, !.saturation = 10, !.brightness = 0, !.contrast = 180,
            !.black_point = 0, !.white_point = 100, !.hsync = 0, !.vsync = 0]

\* line 787: the scalar fields of a struct CRT after the memset
ZeroCRT ==
  [outw |-> 0, outh |-> 0, out_format |-> 0, hue |-> 0, brightness |-> 0,
   contrast |-> 0, saturation |-> 0, black_point |-> 0, white_point |-> 0,
   scanlines |-> 0, blend |-> 0, v_fac |-> 0, hsync |-> 0, vsync |-> 0, rn |-> 0]

\* crt_init without line 789
crt_initNoReset(w, h, f) == [crt_resize(ZeroCRT, w, h, f) EXCEPT !.rn = 194]

crt_init(w, h, f) == [crt_reset(crt_resize(ZeroCRT, w, h, f)) EXCEPT !.rn = 194]

ZeroCcf == [n \in 0..(CRT_CC_VPER - 1) |-> [x \in 1..CRT_CC_SAMPLES |-> 0]]

(***************************************************************************)
(* The callers' data: images, settings, screens                            *)
(***************************************************************************)
\* a 2 x 2 image of four bytes a pixel: red, white, a green and a grey
ImgColour ==
  [data |-> << 0, 0, 255, 0,  255, 255, 255, 0,  10, 200, 30, 0,  128, 128, 128, 0 >>,
   format |-> CRT_PIX_FORMAT_BGRA, w |-> 2, h |-> 2]

\* one white pixel
ImgWhite == [data |-> << 255, 255, 255 >>, format |-> CRT_PIX_FORMAT_RGB, w |-> 1, h |-> 1]

\* one row, one pixel wider than a scanline has active samples
ImgWide ==
  [data |-> [k \in 1..(3 * (AV_LEN + 1)) |-> (k * 37) % 256],
   format |-> CRT_PIX_FORMAT_RGB, w |-> AV_LEN + 1, h |-> 1]

\* one column, as long as a field has active lines
ImgTall ==
  [data |-> [k \in 1..(3 * CRT_LINES) |-> (k * 11) % 256],
   format |-> CRT_PIX_FORMAT_BGR, w |-> 1, h |-> CRT_LINES]

\* an image whose format is none of the CRT_PIX_FORMATs
ImgNoFormat == [ImgColour EXCEPT !.format = CRT_PIX_FORMAT_BGRA + 1]

\* the settings of a call: the fields of struct NTSC_SETTINGS that the caller
\* assigns before it (ntsc.c lines 201-219 and 446-457)
CallArgs(img, raw, as_color, field, frame, hue) ==
  [data |-> img.data, format |-> img.format, w |-> img.w, h |-> img.h, raw |-> raw,
   as_color |-> as_color, field |-> field, frame |-> frame, hue |-> hue]

\* a settings object after "memset(&s, 0, sizeof s)", the data pointer null
ZeroSettings ==
  [data |-> << >>, format |-> 0, w |-> 0, h |-> 0, raw |-> 0, as_color |-> 0,
   field |-> 0, frame |-> 0, hue |-> 0, xoffset |-> 0, yoffset |-> 0,
   iirs_initialized |-> 0]

\* the settings object s with the caller's assignments a
Assign(s, a) ==
  [s EXCEPT !.data = a.data, !.format = a.format, !.w = a.w, !.h = a.h,
            !.raw = a.raw, !.as_color = a.as_color, !.field = a.field,
            !.frame = a.frame, !.hue = a.hue]

\* the output image handed to crt_init: its width, height and format
Screen == [w |-> 1, h |-> 4, f |-> CRT_PIX_FORMAT_BGRA]

\* a buffer of h rows of w pixels of format f, every byte zero (calloc)
BlankOut(w, h, f) == [r \in 0..(h - 1) |-> [b \in 1..(w * crt_bpp4fmt(f)) |-> 0]]

\* some destination row reads the source row past the last one (line 1396:
\* "sy = s->h" is the row after the image)
ReadsPast(s) == \E y \in 0..(DestH(s) - 1) : SrcRow(s, y) >= s.h

\* the caller's assignments k to the monitor settings of v (lines 223-224,
\* 297-313): k[f] is the value of field f
Adjusted(v, k) == [f \in DOMAIN v |-> IF f \in DOMAIN k THEN k[f] ELSE v[f]]

\* the bytes a read past the image may find
OobBytes == { 0, 255 }

\* the samples a read past inp may find
OobSamples == { -128, 127 }

(***************************************************************************)
(* The state                                                               *)
(***************************************************************************)
VARIABLES
  v,        \* struct CRT without its arrays
  analog,   \* v->analog
  inp,      \* v->inp
  ccf,      \* v->ccf
  out,      \* the image v->out points to
  s,        \* the caller's struct NTSC_SETTINGS
  iir,      \* the coefficients c of the static iirY, iirI, iirQ
  hist,     \* history: the operations so far, the last one last
  call,     \* history: the inputs and locals of the last operation
  ndemod,   \* history: the calls of crt_demodulate that passed its format check
  inits     \* history: how many times the latch block ran init_iir

vars == << v, analog, inp, ccf, out, s, iir, hist, call, ndemod, inits >>

\* the entries of hist that are calls of the library
IsCall(op) == op \in { "crt_modulate", "crt_demodulate", "crt_reset" }

Calls(h) == Len(SelectSeq(h, IsCall))

\* the state after crt_init(&v, screen.w, screen.h, screen.f, out) on a zeroed
\* image, the caller's assignments k and a zeroed settings object
InitWith(setups, screen) ==
  /\ \E k \in setups : v = Adjusted(crt_init(screen.w, screen.h, screen.f), k)
  /\ analog = ZeroField
  /\ inp = ZeroField
  /\ ccf = ZeroCcf
  /\ out = BlankOut(screen.w, screen.h, screen.f)
  /\ s = ZeroSettings
  /\ iir = [y |-> 0, i |-> 0, q |-> 0]
  /\ hist = << >>
  /\ call = [op |-> "crt_init"]
  /\ ndemod = 0
  /\ inits = 0

\* crt_modulate(&v, &s) after the caller has assigned some a of args to s.  A
\* read of the row past the image finds bytes the program does not set: the
\* call has one outcome for each such byte.
CallModulate(args, budget) ==
  /\ Calls(hist) < budget
  /\ \E a \in args :
     \E s0 \in { Assign(s, a) } :
     \E oob \in (IF crt_bpp4fmt(s0.format) # 0 /\ ReadsPast(s0) THEN OobBytes ELSE { 0 }) :
       /\ iir' = LatchIir(s0, iir)
       /\ inits' = inits + (IF s0.iirs_initialized = 0 THEN 1 ELSE 0)
       /\ hist' = Append(hist, "crt_modulate")
       /\ IF crt_bpp4fmt(s0.format) = 0
            THEN /\ s' = [s0 EXCEPT !.iirs_initialized = IF @ = 0 THEN 1 ELSE @]
                 /\ call' = [op |-> "crt_modulate", arg |-> s0]
                 /\ UNCHANGED << v, analog, inp, ccf, out, ndemod >>
            ELSE /\ s' = [s0 EXCEPT !.iirs_initialized = IF @ = 0 THEN 1 ELSE @,
                                    !.field = @ % 2, !.frame = @ % 2]
                 /\ analog' = ModAnalog(analog, s0, v.black_point, v.white_point,
                                        iir, oob)
                 /\ ccf' = SeedCcf(s0)
                 /\ call' = [op |-> "crt_modulate", arg |-> s0, oob |-> oob,
                             destw |-> DestW(s0), desth |-> DestH(s0),
                             xo |-> ModXo(s0), yo |-> ModYo(s0)]
                 /\ UNCHANGED << v, inp, out, ndemod >>

\* crt_demodulate(&v, noise).  A read past the end of inp finds a value the
\* program does not set: the call has one outcome for each such value, and
\* one outcome, r0, if it reads nothing past the end.
CallDemodulate(noises, budget) ==
  /\ Calls(hist) < budget
  /\ hist' = Append(hist, "crt_demodulate")
  /\ \E noise \in noises :
       IF crt_bpp4fmt(v.out_format) = 0
         THEN /\ call' = [op |-> "crt_demodulate", noise |-> noise, before |-> out]
              /\ UNCHANGED << v, analog, inp, ccf, out, s, iir, ndemod, inits >>
         ELSE \E np \in { NoisePass(analog, noise, v.rn) } :
              \E vs \in { VsyncSearch(np.inp, v.vsync) } :
              \E o0 \in { CHOOSE o \in OobSamples : \A p \in OobSamples : o <= p } :
              \E r0 \in { DemodSynced(v, ccf, out, o0, np, vs) } :
              \E r \in (IF r0.outside
                         THEN { r0 } \cup { DemodSynced(v, ccf, out, oob, np, vs) :
                                            oob \in OobSamples \ { o0 } }
                         ELSE { r0 }) :
                /\ v' = r.v
                /\ inp' = r.inp
                /\ ccf' = r.ccf
                /\ out' = r.out
                /\ ndemod' = ndemod + 1
                /\ call' = [op |-> "crt_demodulate", noise |-> noise, before |-> out,
                            outside |-> r.outside, was |-> v, j |-> vs.j, hs |-> r.hs,
                            field |-> DemodCtx(v, vs.line, vs.j, o0).field]
                /\ UNCHANGED << analog, s, iir, inits >>

\* crt_reset(&v)
CallReset(budget) ==
  /\ Calls(hist) < budget
  /\ v' = crt_reset(v)
  /\ hist' = Append(hist, "crt_reset")
  /\ call' = [op |-> "crt_reset"]
  /\ UNCHANGED << analog, inp, ccf, out, s, iir, ndemod, inits >>

(***************************************************************************)
(* The signal path: one CRT, one settings object, any order of calls       *)
(***************************************************************************)
\* the calls of a behaviour
MaxCalls == 3

\* crt_demodulate adds noise only in the first NoisyCalls calls of a behaviour
NoisyCalls == 1

\* what the callers pass
ModArgs ==
  { CallArgs(ImgColour, 1, 1, 0, 0, 0),
    CallArgs(ImgWhite, 0, 1, 1, 0, 45),
    CallArgs(ImgColour, 0, 0, 0, 1, 0) }

Noises == { 0, 4000 }

\* the monitor settings the caller assigns after crt_init
Setups ==
  { [black_point |-> -60, white_point |-> 200, scanlines |-> 1] }

Init == InitWith(Setups, Screen)

Next ==
  \/ CallModulate(ModArgs, MaxCalls)
  \/ CallDemodulate(IF Calls(hist) < NoisyCalls THEN Noises ELSE { 0 }, MaxCalls)
  \/ CallReset(MaxCalls)

Spec == Init /\ [][Next]_vars

(***************************************************************************)
(* The objects: callers that rebuild the settings and replace the image    *)
(***************************************************************************)
\* the calls of crt_modulate and crt_demodulate of a behaviour
MaxObjectCalls == 2

\* the times a behaviour rebuilds the settings or replaces the image
MaxEdits == 1

\* what the callers pass
ObjArgs ==
  { CallArgs(ImgNoFormat, 0, 1, 0, 0, 0),
    CallArgs(ImgWide, 1, 1, 0, 0, 0),
    CallArgs(ImgTall, 1, 1, 0, 0, 0),
    CallArgs(ImgColour, 1, 1, 1, 0, 0) }

\* the formats of the images the caller replaces the output with
ResizeFormats == { CRT_PIX_FORMAT_RGB, CRT_PIX_FORMAT_BGRA + 1 }

Edits(h) == Len(h) - Calls(h)

\* the caller rebuilds its settings for the next field: a zeroed object, as
\* ntsc.h line 141 asks
NewSettings ==
  /\ Edits(hist) < MaxEdits
  /\ Calls(hist) < MaxObjectCalls
  /\ s' = ZeroSettings
  /\ hist' = Append(hist, "new settings")
  /\ call' = [op |-> "new settings"]
  /\ UNCHANGED << v, analog, inp, ccf, out, iir, ndemod, inits >>

\* crt_resize(&v, w, h, f, out) with a zeroed image of format f, or with the
\* image in use when f is no format
CallResize ==
  /\ Edits(hist) < MaxEdits
  /\ Calls(hist) < MaxObjectCalls
  /\ \E f \in ResizeFormats :
       /\ v' = crt_resize(v, Screen.w, Screen.h, f)
       /\ out' = IF crt_bpp4fmt(f) # 0 THEN BlankOut(Screen.w, Screen.h, f) ELSE out
       /\ call' = [op |-> "crt_resize", f |-> f]
  /\ hist' = Append(hist, "crt_resize")
  /\ UNCHANGED << analog, inp, ccf, s, iir, ndemod, inits >>

\* crt_init(&v, w, h, f, out) again, with a zeroed image, on the CRT in use
CallInit ==
  /\ Edits(hist) < MaxEdits
  /\ Calls(hist) < MaxObjectCalls
  /\ v' = crt_init(Screen.w, Screen.h, Screen.f)
  /\ analog' = ZeroField
  /\ inp' = ZeroField
  /\ ccf' = ZeroCcf
  /\ out' = BlankOut(Screen.w, Screen.h, Screen.f)
  /\ ndemod' = 0
  /\ hist' = Append(hist, "crt_init")
  /\ call' = [op |-> "crt_init", was |-> v]
  /\ UNCHANGED << s, iir, inits >>

InitObjects == InitWith({ << >> }, Screen)

NextObjects ==
  \/ CallModulate(ObjArgs, MaxObjectCalls)
  \/ CallDemodulate({ 0 }, MaxObjectCalls)
  \/ NewSettings
  \/ CallResize
  \/ CallInit

SpecObjects == InitObjects /\ [][NextObjects]_vars

(***************************************************************************)
(* The passes: crt_modulate; crt_demodulate(noise = 0) repeated on one     *)
(* image with one settings object, after some fields without a signal      *)
(***************************************************************************)
\* the passes of a behaviour
MaxPasses == 12

\* the fields without a signal that a behaviour demodulates before its first
\* pass: none, or enough of them to lose the vertical sync
NoSignalFields == { 0, 3 }

\* an output image with one row for each active line
PassScreen == [w |-> 1, h |-> CRT_LINES, f |-> CRT_PIX_FORMAT_BGRA]

PassSetups == { [brightness |-> 100], [brightness |-> 100, blend |-> 1] }

PassArgs == { CallArgs(ImgColour, 0, 1, 0, 0, 0) }

IsModulate(op) == op = "crt_modulate"

\* the passes begun
Mods(h) == Len(SelectSeq(h, IsModulate))

\* the last operation
Last(h) == IF h = << >> THEN "crt_init" ELSE h[Len(h)]

\* the calls of crt_demodulate before the first pass
Pre(h) ==
  (Len(h) - Mods(h)) - (IF Last(h) = "crt_modulate" THEN Mods(h) - 1 ELSE Mods(h))

\* the settings object as it is, passed again
SameArgs(st) ==
  [data |-> st.data, format |-> st.format, w |-> st.w, h |-> st.h, raw |-> st.raw,
   as_color |-> st.as_color, field |-> st.field, frame |-> st.frame, hue |-> st.hue]

PassModulate ==
  /\ Last(hist) # "crt_modulate"
  /\ Mods(hist) < MaxPasses
  /\ Mods(hist) = 0 => Len(hist) \in NoSignalFields
  /\ CallModulate(IF Mods(hist) = 0 THEN PassArgs ELSE { SameArgs(s) },
                  Len(hist) + 1)

PassDemodulate ==
  /\ IF Mods(hist) = 0 THEN \E k \in NoSignalFields : Len(hist) < k
                       ELSE Last(hist) = "crt_modulate"
  /\ CallDemodulate({ 0 }, Len(hist) + 1)

InitPasses == InitWith(PassSetups, PassScreen)

NextPasses == PassModulate \/ PassDemodulate

SpecPasses == InitPasses /\ [][NextPasses]_vars

(***************************************************************************)
(* The scanlines: fields of either parity on an output image four times    *)
(* as high as the active video                                             *)
(***************************************************************************)
\* the calls of a behaviour
MaxScanCalls == 3

\* an output image with four rows for each active line
ScanScreen == [w |-> 1, h |-> 4 * CRT_LINES, f |-> CRT_PIX_FORMAT_BGRA]

\* that image, and one with a row for each active line
ScanScreens == { ScanScreen, PassScreen }

\* main, line 224: crt.scanlines = 1, or left as crt_init set it
ScanSetups == { << >>, [scanlines |-> 1] }

\* an even field, and an odd field of another image and hue
ScanArgs ==
  { CallArgs(ImgColour, 0, 1, 0, 0, 0),
    CallArgs(ImgWhite, 1, 1, 1, 1, 45) }

InitScan == \E screen \in ScanScreens : InitWith(ScanSetups, screen)

NextScan ==
  \/ CallModulate(ScanArgs, MaxScanCalls)
  \/ CallDemodulate({ 0 }, MaxScanCalls)

SpecScan == InitScan /\ [][NextScan]_vars

(***************************************************************************)
(* The lock: crt_modulate and crt_demodulate in turn, on a CRT whose       *)
(* vsync is anywhere                                                       *)
(***************************************************************************)
\* the pairs of calls of a behaviour
MaxLockPairs == 8

\* the vsync the CRT starts with: locked, next to the lock, one and two lines
\* into the vertical sync pulse, and six fields of drift from the lock
LockStarts == { 4, 0, 13, 14, 218 }

LockSetups == { [vsync |-> x] : x \in LockStarts }

\* an even and an odd field
LockArgs ==
  { CallArgs(ImgColour, 0, 1, 0, 0, 0), CallArgs(ImgWhite, 1, 1, 1, 1, 45) }

LockModulate ==
  /\ Last(hist) # "crt_modulate"
  /\ Mods(hist) < MaxLockPairs
  /\ CallModulate(IF Mods(hist) = 0 THEN LockArgs ELSE { SameArgs(s) }, Len(hist) + 1)

LockDemodulate ==
  /\ Last(hist) = "crt_modulate"
  /\ CallDemodulate({ 0 }, Len(hist) + 1)

InitLock == InitWith(LockSetups, Screen)

NextLock == LockModulate \/ LockDemodulate

SpecLock == InitLock /\ [][NextLock]_vars

\* a call is made: what a step of NextLock does to hist
LockCall ==
  /\ Last(hist) = "crt_modulate" \/ Mods(hist) < MaxLockPairs
  /\ hist' \in { Append(hist, "crt_modulate"), Append(hist, "crt_demodulate") }

\* the caller goes on until it has made its pairs of calls
SpecLockFair == SpecLock /\ WF_hist(LockCall)

(***************************************************************************)
(* The functions: crt_bpp4fmt, the source row of a destination row and the *)
(* drawing of a pixel, applied to arguments no caller above passes         *)
(***************************************************************************)
\* the formats given to crt_bpp4fmt
BppFormats == -3..9

\* the heights of the source images
SrcHeights == { 1, 2, 100, 235, 236, 237, 400, 472, 500, 708, 1000 }

\* the settings of a field of a square image of height h
RowArgs(h, raw, field) ==
  Assign(ZeroSettings,
         CallArgs([data |-> << >>, format |-> CRT_PIX_FORMAT_RGB, w |-> h, h |-> h],
                  raw, 1, field, 0, 0))

\* the source row of every destination row (lines 1385-1394)
SrcRows(st) == [y \in 0..(DestH(st) - 1) |-> SrcRow(st, y)]

\* the source column of every destination column (line 1409)
SrcCols(st) == [x \in 0..(DestW(st) - 1) |-> SrcCol(st, DestW(st), x)]

\* the bytes a pixel of the output image holds before it is drawn
OldPixels ==
  { << 0, 0, 0, 0 >>, << 255, 255, 255, 255 >>, << 1, 2, 3, 4 >>,
    << 254, 1, 128, 77 >>, << 127, 255, 0, 129 >> }

\* the filtered samples y, i, q of the two entries of out[] a pixel is
\* interpolated from
BeamSamples ==
  { << [y |-> 0, i |-> 0, q |-> 0], [y |-> 0, i |-> 0, q |-> 0] >>,
    << [y |-> 1600, i |-> 0, q |-> 0], [y |-> 1616, i |-> 0, q |-> 0] >>,
    << [y |-> 800, i |-> 40, q |-> -25], [y |-> 900, i |-> -30, q |-> 60] >>,
    << [y |-> 3000, i |-> 200, q |-> 200], [y |-> 3000, i |-> -200, q |-> -200] >>,
    << [y |-> 1000, i |-> -100, q |-> 20], [y |-> 1200, i |-> 90, q |-> -70] >> }

\* the beam between the two entries
BeamPositions == { 0, 1365, 4095 }

\* crt_bpp4fmt(format)
ApplyBpp ==
  /\ hist = << >>
  /\ \E format \in BppFormats :
       call' = [op |-> "crt_bpp4fmt", format |-> format, bpp |-> crt_bpp4fmt(format)]
  /\ hist' = << "crt_bpp4fmt" >>
  /\ UNCHANGED << v, analog, inp, ccf, out, s, iir, ndemod, inits >>

\* lines 1385-1394 and 1409 for the two fields of one image
ApplySrcRow ==
  /\ hist = << >>
  /\ \E h \in SrcHeights : \E raw \in { 0, 1 } :
       call' = [op |-> "source rows", h |-> h, w |-> h, raw |-> raw,
                desth |-> DestH(RowArgs(h, raw, 0)),
                cols |-> SrcCols(RowArgs(h, raw, 0)),
                even |-> SrcRows(RowArgs(h, raw, 0)),
                odd |-> SrcRows(RowArgs(h, raw, 1))]
  /\ hist' = << "source rows" >>
  /\ UNCHANGED << v, analog, inp, ccf, out, s, iir, ndemod, inits >>

\* lines 1047-1125 for one pixel of a CRT that blends
ApplyBlend ==
  /\ hist = << >>
  /\ \E fmt \in CRT_PIX_FORMAT_RGB..CRT_PIX_FORMAT_BGRA :
     \E old \in OldPixels : \E o \in BeamSamples : \E pos \in BeamPositions :
     \E cL \in { SubSeq(old, 1, crt_bpp4fmt(fmt)) } :
       call' = [op |-> "pixel", fmt |-> fmt, old |-> cL,
                new |-> BeamRGB(o, pos, v.contrast),
                stored |-> DrawPixel([fmt |-> fmt, blend |-> 1, contrast |-> v.contrast],
                                     o, pos, cL)]
  /\ hist' = << "pixel" >>
  /\ UNCHANGED << v, analog, inp, ccf, out, s, iir, ndemod, inits >>

\* the noise arguments of crt_demodulate
NoiseInputs == { 0, 1, 3, 4000, 16777215, 16777216, 2147483647 }

\* line 848 for one sample: the noise added when bits 16-23 of rn are byte
ApplyNoise ==
  /\ hist = << >>
  /\ \E noise \in NoiseInputs : \E byte \in 0..255 :
       call' = [op |-> "noise", noise |-> noise, byte |-> byte,
                term |-> NoiseTerm([hi |-> byte, lo |-> 0], noise)]
  /\ hist' = << "noise" >>
  /\ UNCHANGED << v, analog, inp, ccf, out, s, iir, ndemod, inits >>

InitFunctions == InitWith({ << >> }, Screen)

NextFunctions == ApplyBpp \/ ApplySrcRow \/ ApplyBlend \/ ApplyNoise

SpecFunctions == InitFunctions /\ [][NextFunctions]_vars

(***************************************************************************)
(* Properties of the signal path                                           *)
(***************************************************************************)
Rows == 0..(CRT_VRES - 1)

Cols == 0..(CRT_HRES - 1)

\* the last call was a crt_modulate that passed its format check
Modulated == call.op = "crt_modulate" /\ crt_bpp4fmt(call.arg.format) # 0

\* the last call was a crt_demodulate that drew a field
Demodulated == call.op = "crt_demodulate" /\ crt_bpp4fmt(v.out_format) # 0

\* sample t of line n lies in the destination rectangle of the last call
InRect(n, t) ==
  /\ n >= call.yo /\ n < call.yo + call.desth
  /\ t >= call.xo /\ t < call.xo + call.destw

\* C2: in every reachable state, and so after each crt_modulate, every sample
\* of analog lies between SYNC_LEVEL (-40) and 110
C2_AnalogRange ==
  \A n \in Rows : \A t \in Cols :
    analog[n][t + 1] >= SYNC_LEVEL /\ analog[n][t + 1] <= 110

\* a crt_modulate that followed other calls left a sample at each end of the
\* range: a sync tip and a clamped white
C2_Witness ==
  /\ Modulated
  /\ Len(hist) >= 2
  /\ \E n \in Rows : \E t \in Cols : analog[n][t + 1] = SYNC_LEVEL
  /\ \E n \in Rows : \E t \in Cols : analog[n][t + 1] = 110

\* line 951-953 applied to an entry that holds x and a sample smp
CcfStep(x, smp) ==
  CcfLoop(<< x, 0, 0, 0 >>, ZeroField, CRT_INPUT_SIZE, smp, 0, 0)[1]

\* an update of an entry within the bound leaves it within the bound, for
\* every sample a signed char can hold.  It reads nothing of the state: it is
\* evaluated in the state crt_init leaves.
CcfStepClosed ==
  hist = << >> =>
    \A x \in -16383..16383 : \A smp \in { -128, -127, 0, 127 } :
      Abs(CcfStep(x, smp)) < 16384

\* C5: every entry of ccf is smaller than 16384 in absolute value, in every
\* reachable state, and an update of crt_demodulate keeps it so
C5_CcfBounded ==
  /\ \A n \in DOMAIN ccf : \A x \in DOMAIN ccf[n] :
       ccf[n][x] > -16384 /\ ccf[n][x] < 16384
  /\ CcfStepClosed

\* a noisy crt_demodulate has accumulated more in an entry of ccf than one
\* sample can hold
C5_Witness ==
  /\ call.op = "crt_demodulate"
  /\ call.noise > 0
  /\ \E n \in DOMAIN ccf : \E x \in DOMAIN ccf[n] : Abs(ccf[n][x]) > 127

\* rn after k calls of crt_demodulate that passed the format check, starting
\* from the 194 of crt_init
RECURSIVE RnChain(_)
RnChain(k) == IF k = 0 THEN 194 ELSE LcgAdvance(RnChain(k - 1))

\* C6: rn is 194 after crt_init, every crt_demodulate that passes the format
\* check advances it by exactly CRT_INPUT_SIZE steps of the generator
\* next = 214019 * prev + 140327895 (mod 2^32), one execution of line 845 at
\* a time, whatever the noise and the signal, and nothing else changes it:
\* rn is decided by the number of those calls
C6_RnSteps ==
  /\ v.rn = RnChain(ndemod)
  /\ Demodulated =>
       v.rn = RnInt(LcgSteps(RnWord(call.was.rn), CRT_INPUT_SIZE))

\* two demodulated fields, one of them noisy, and a crt_modulate between them
C6_Witness ==
  /\ ndemod = 2
  /\ hist = << "crt_demodulate", "crt_modulate", "crt_demodulate" >>
  /\ analog # ZeroField
  /\ v.rn # 194

\* the samples of row that crt_modulate writes when the row is line n and c
\* holds the locals of the call: the whole of a line above CRT_TOP, of a
\* lower line the part before the active video and the part in the rectangle
WrittenPart(c, n, row) ==
  IF n < CRT_TOP THEN << row >>
  ELSE IF n >= c.yo /\ n < c.yo + c.desth
    THEN << SubSeq(row, 1, AV_BEG), SubSeq(row, c.xo + 1, c.xo + c.destw) >>
    ELSE << SubSeq(row, 1, AV_BEG) >>

\* the active video samples of row that lie outside the rectangle
KeptPart(c, n, row) ==
  IF n < CRT_TOP THEN << >>
  ELSE IF n >= c.yo /\ n < c.yo + c.desth
    THEN << SubSeq(row, AV_BEG + 1, c.xo), SubSeq(row, c.xo + c.destw + 1, CRT_HRES) >>
    ELSE << SubSeq(row, AV_BEG + 1, CRT_HRES) >>

\* the sync, blanking and burst samples of row
SyncPart(n, row) == IF n < CRT_TOP THEN row ELSE SubSeq(row, 1, AV_BEG)

\* the call with the arguments and outcome c made on a zeroed analog buffer,
\* by a CRT with the black and white point of v and the filters c0
FromZero(c, c0) ==
  ModAnalog(ZeroField, c.arg, v.black_point, v.white_point, c0, c.oob)

\* C7: a crt_modulate that passes the format check leaves every active video
\* sample outside the destination rectangle as it was, and gives the sync,
\* blanking and burst samples of all lines the levels of this call, whatever
\* they held
C7_Step ==
  (call'.op = "crt_modulate" /\ hist' # hist /\ crt_bpp4fmt(call'.arg.format) # 0) =>
    \E ref \in { SyncPass(ZeroField, call'.arg) } :
      \A n \in Rows :
        /\ KeptPart(call', n, analog'[n]) = KeptPart(call', n, analog[n])
        /\ SyncPart(n, analog'[n]) = SyncPart(n, ref[n])

C7_RewritesSyncKeepsOutside == [][C7_Step]_vars

\* an unscaled image was modulated over a field that already held a picture:
\* active video of the earlier call remains outside the rectangle
C7_Witness ==
  /\ Modulated
  /\ call.arg.raw # 0
  /\ \E n \in CRT_TOP..(CRT_VRES - 1) : \E t \in AV_BEG..(CRT_HRES - 1) :
       ~InRect(n, t) /\ analog[n][t + 1] > BLACK_LEVEL

\* C3 as amended: with as_color = 1 and raw = 1, the samples crt_modulate
\* writes are those the same call writes into a zeroed buffer of a CRT with
\* the same black and white point: they do not depend on the buffer, on ccf,
\* on the sync state or on earlier settings
C3_WrittenSamplesDetermined ==
  (Modulated /\ call.arg.raw # 0 /\ call.arg.as_color # 0) =>
    \E ref \in { FromZero(call, iir) } :
      \A n \in Rows : WrittenPart(call, n, analog[n]) = WrittenPart(call, n, ref[n])

\* the call was made on a field that held an earlier picture, and the buffer
\* it leaves is not the one it leaves when it starts from a zeroed buffer
C3_Witness ==
  /\ Modulated /\ call.arg.raw # 0 /\ call.arg.as_color # 0
  /\ Len(hist) >= 2
  /\ analog # FromZero(call, iir)

\* C3 as stated: the whole analog buffer is the one the same call leaves when
\* it starts from a zeroed buffer
C3_BitIdentical ==
  (Modulated /\ call.arg.raw # 0 /\ call.arg.as_color # 0) =>
    analog = FromZero(call, iir)

\* the R, G, B of the pixel bytes cL
PixelRGB(fmt, cL) ==
  << OldColour(fmt, cL) \div 65536, (OldColour(fmt, cL) \div 256) % 256,
     OldColour(fmt, cL) % 256 >>

\* C10 as stated: after crt_modulate with as_color = 0 and crt_demodulate with
\* noise = 0 and blend off, every pixel of the output has R = G = B
C10_MonochromeIsGrey ==
  (/\ call.op = "crt_demodulate" /\ call.noise = 0 /\ v.blend = 0
   /\ Len(hist) >= 2 /\ hist[Len(hist) - 1] = "crt_modulate"
   /\ s.as_color = 0 /\ crt_bpp4fmt(s.format) # 0 /\ crt_bpp4fmt(v.out_format) # 0) =>
    \A r \in DOMAIN out :
      \A k \in 0..(v.outw - 1) :
        \E c \in { PixelRGB(v.out_format,
                            SubSeq(out[r], k * crt_bpp4fmt(v.out_format) + 1,
                                   (k + 1) * crt_bpp4fmt(v.out_format))) } :
          c[1] = c[2] /\ c[2] = c[3]

(***************************************************************************)
(* Properties of the objects                                               *)
(***************************************************************************)
Formats == CRT_PIX_FORMAT_RGB..CRT_PIX_FORMAT_BGRA

\* C1 as amended: a crt_demodulate whose output format is none of 0..5
\* changes nothing; a crt_modulate whose settings format is none of 0..5
\* changes nothing in the CRT and nothing in the settings except the latch
\* iirs_initialized, which it sets to 1 when it was 0
C1_Step ==
  /\ (call'.op = "crt_modulate" /\ hist' # hist /\ call'.arg.format \notin Formats) =>
       /\ UNCHANGED << v, analog, inp, ccf, out >>
       /\ s' = [call'.arg EXCEPT !.iirs_initialized = IF @ = 0 THEN 1 ELSE @]
  /\ (call'.op = "crt_demodulate" /\ hist' # hist /\ v.out_format \notin Formats) =>
       UNCHANGED << v, analog, inp, ccf, out, s, iir, inits >>

C1_InvalidFormatChangesOnlyLatch == [][C1_Step]_vars

\* crt_modulate was called with a format that is none of 0..5 on a CRT that
\* held a modulated field, with a settings object whose latch was 0
C1_Witness ==
  /\ call.op = "crt_modulate"
  /\ call.arg.format \notin Formats
  /\ call.arg.iirs_initialized = 0
  /\ analog # ZeroField

\* C1 as stated: with a format that is none of 0..5 both calls change no
\* state: the CRT, the output image and the settings object with its latch
\* are as before the call
C1_StepNoOp ==
  /\ (call'.op = "crt_modulate" /\ hist' # hist /\ call'.arg.format \notin Formats) =>
       /\ UNCHANGED << v, analog, inp, ccf, out >>
       /\ s' = call'.arg
  /\ (call'.op = "crt_demodulate" /\ hist' # hist /\ v.out_format \notin Formats) =>
       UNCHANGED << v, analog, inp, ccf, out, s >>

C1_InvalidFormatIsNoOp == [][C1_StepNoOp]_vars

\* the destination size of a call with the settings a
WidthOf(a) == IF a.raw # 0 THEN Min(a.w, AV_LEN) ELSE AV_LEN

HeightOf(a) ==
  IF a.raw # 0 THEN Min(a.h, Shr(CRT_LINES * 64500, 16)) ELSE Shr(CRT_LINES * 64500, 16)

\* the first crt_modulate of a behaviour that passed the format check, and
\* nothing after it
FirstField ==
  /\ Modulated
  /\ analog # ZeroField
  /\ \A k \in 1..(Len(hist) - 1) : hist[k] # "crt_modulate"

C9_InitOnce == (\E k \in DOMAIN hist : hist[k] = "crt_modulate") => inits = 1

(***************************************************************************)
(* Properties of the passes                                                *)
(***************************************************************************)
\* C4 as amended: with blend off and the first pass made in the state
\* crt_init leaves, the output after pass N + 1 is the output after pass N
\* for every N >= 4
C4_ConvergesFromInit ==
  (call.op = "crt_demodulate" /\ Mods(hist) >= 5 /\ Pre(hist) = 0 /\ v.blend = 0) =>
    out = call.before

\* a fifth pass, made with blend off from the state crt_init leaves, has
\* drawn a picture, the one the fourth pass had drawn
C4_Witness ==
  /\ call.op = "crt_demodulate" /\ Mods(hist) = 5 /\ Pre(hist) = 0 /\ v.blend = 0
  /\ out = call.before
  /\ out # BlankOut(PassScreen.w, PassScreen.h, PassScreen.f)

\* C4 as stated: the output after pass N + 1 is the output after pass N for
\* every N >= 4
C4_Converges ==
  (call.op = "crt_demodulate" /\ Mods(hist) >= 5) => out = call.before

(***************************************************************************)
(* Properties of the functions                                             *)
(***************************************************************************)
\* the shift of the source row between the fields, as line 1389 rounds it
HalfLineUp(h, desth) == ((h \div desth) + 1) \div 2

\* C11 as amended: the odd field reads, for every destination row, the
\* source row ((h + desth) / desth) / 2 below the one the even field reads,
\* which is half of h / desth rounded up
C11_FieldShiftRoundsUp ==
  call.op = "source rows" =>
    \A y \in 0..(call.desth - 1) :
      call.odd[y] = call.even[y] + HalfLineUp(call.h, call.desth)

\* an unscaled image as high as its destination: the odd field reads one row
\* lower, and its last row is the row past the image
C11_Witness ==
  /\ call.op = "source rows"
  /\ call.raw = 1 /\ call.h = 100 /\ call.desth = 100
  /\ call.odd[0] = 1 /\ call.even[0] = 0
  /\ call.odd[99] = 100

\* C11 as stated: the shift is (h / desth) / 2 source rows for every h
C11_FieldShiftHalfLine ==
  call.op = "source rows" =>
    \A y \in 0..(call.desth - 1) :
      call.odd[y] = call.even[y] + ((call.h \div call.desth) \div 2)

\* the bytes of a pixel that hold R, G and B (ntsc.h lines 148-153)
ChannelBytes(fmt) ==
  CASE fmt = CRT_PIX_FORMAT_RGB -> << 1, 2, 3 >>
    [] fmt = CRT_PIX_FORMAT_BGR -> << 3, 2, 1 >>
    [] fmt = CRT_PIX_FORMAT_ARGB -> << 2, 3, 4 >>
    [] fmt = CRT_PIX_FORMAT_RGBA -> << 1, 2, 3 >>
    [] fmt = CRT_PIX_FORMAT_ABGR -> << 4, 3, 2 >>
    [] fmt = CRT_PIX_FORMAT_BGRA -> << 3, 2, 1 >>

\* C12: with blend = 1, in each of the six formats, every channel of a drawn
\* pixel is within 1 of the mean of the value it held and the decoded value,
\* and lies in 0..255
C12_BlendIsMean ==
  call.op = "pixel" =>
    \E new \in { << call.new.r, call.new.g, call.new.b >> } :
      \A k \in 1..3 :
        \E b \in { ChannelBytes(call.fmt)[k] } :
          /\ call.stored[b] >= 0 /\ call.stored[b] <= 255
          /\ 2 * call.stored[b] >= call.old[b] + new[k] - 2
          /\ 2 * call.stored[b] <= call.old[b] + new[k] + 2

\* a pixel whose green byte was odd and whose decoded green is odd, next to
\* a blue channel that has to stay below 128
C12_Witness ==
  /\ call.op = "pixel"
  /\ call.fmt = CRT_PIX_FORMAT_ABGR
  /\ call.old[3] % 2 = 1 /\ call.new.g % 2 = 1
  /\ call.old[2] + call.new.b < 255
  /\ call.stored[2] < 128
  /\ call.stored # call.old

\* C17: crt_bpp4fmt returns 3 for the formats 0 and 1, 4 for the formats
\* 2..5 and 0 for every other integer
C17_BytesPerPixel ==
  call.op = "crt_bpp4fmt" =>
    call.bpp = (IF call.format = 0 \/ call.format = 1 THEN 3
                ELSE IF call.format >= 2 /\ call.format <= 5 THEN 4
                ELSE 0)

\* it was given the format after the last one
C17_Witness ==
  /\ call.op = "crt_bpp4fmt"
  /\ call.format = CRT_PIX_FORMAT_BGRA + 1
  /\ call.bpp = 0

(***************************************************************************)
(* Properties of crt_init and crt_reset                                    *)
(***************************************************************************)
\* C14: after crt_init(v, w, h, f, out), whatever the CRT held, the output
\* parameters are the arguments, the monitor settings are the defaults,
\* hsync = vsync = 0, rn = 194, blend = scanlines = v_fac = 0 and analog, inp
\* and ccf are zero; a second crt_init with the same arguments changes nothing
C14_Step ==
  (call'.op = "crt_init" /\ hist' # hist) =>
    /\ v'.outw = Screen.w /\ v'.outh = Screen.h /\ v'.out_format = Screen.f
    /\ v'.hue = 0 /\ v'.saturation = 10 /\ v'.contrast = 180
    /\ v'.white_point = 100 /\ v'.black_point = 0 /\ v'.brightness = 0
    /\ v'.hsync = 0 /\ v'.vsync = 0 /\ v'.rn = 194
    /\ v'.blend = 0 /\ v'.scanlines = 0 /\ v'.v_fac = 0
    /\ \A n \in 0..(CRT_VRES - 1) : \A t \in 1..CRT_HRES :
         analog'[n][t] = 0 /\ inp'[n][t] = 0
    /\ \A n \in 0..(CRT_CC_VPER - 1) : \A x \in 1..CRT_CC_SAMPLES : ccf'[n][x] = 0
    /\ call.op = "crt_init" => UNCHANGED << v, analog, inp, ccf >>

C14_InitState == [][C14_Step]_vars

\* crt_init was called on a CRT that had demodulated a field
C14_Witness ==
  /\ call.op = "crt_init"
  /\ Len(hist) = 2
  /\ call.was.rn # 194 /\ call.was.vsync # 0
  /\ v.rn = 194 /\ v.vsync = 0

\* C15: crt_reset sets hue, saturation, brightness, contrast, black_point
\* and white_point to 0, 10, 0, 180, 0 and 100 and hsync and vsync to 0, and
\* changes nothing else of the CRT
C15_Step ==
  (call'.op = "crt_reset" /\ hist' # hist) =>
    /\ v'.hue = 0 /\ v'.saturation = 10 /\ v'.brightness = 0 /\ v'.contrast = 180
    /\ v'.black_point = 0 /\ v'.white_point = 100
    /\ v'.hsync = 0 /\ v'.vsync = 0
    /\ v'.rn = v.rn /\ v'.outw = v.outw /\ v'.outh = v.outh
    /\ v'.out_format = v.out_format /\ v'.blend = v.blend
    /\ v'.scanlines = v.scanlines /\ v'.v_fac = v.v_fac
    /\ UNCHANGED << analog, inp, ccf, out >>

C15_ResetKeepsSignal == [][C15_Step]_vars

\* crt_reset was called on a CRT that draws scanlines, after it had locked to
\* the field it demodulated
C15_Witness ==
  /\ call.op = "crt_reset"
  /\ hist = << "crt_modulate", "crt_demodulate", "crt_reset" >>
  /\ v.scanlines = 1
  /\ v.hsync = 0 /\ v.vsync = 0 /\ v.white_point = 100
  /\ v.rn # 194
  /\ inp # ZeroField

\* the noise levels of NoiseStepClosed
NoiseLevels == { 0, 1, 255, 4000, 16777216, 2147483647 }

\* a sample of line 848 clamped by lines 849-850 lies in -127..127, for
\* every sample a signed char can hold and every byte of the generator.  It
\* reads nothing of the state: it is evaluated in the state crt_init leaves.
NoiseStepClosed ==
  hist = << >> =>
    \A a \in -128..127 : \A b \in 0..255 : \A noise \in NoiseLevels :
      \E x \in { Clamp127(a + NoiseTerm([hi |-> b, lo |-> 0], noise)) } :
        x >= -127 /\ x <= 127

\* C16: after the noise loop of crt_demodulate every sample of inp lies in
\* -127..127, whatever the noise and the signal
C16_InpRange ==
  /\ Demodulated =>
       \A n \in 0..(CRT_VRES - 1) : \A t \in 1..CRT_HRES :
         inp[n][t] >= -127 /\ inp[n][t] <= 127
  /\ NoiseStepClosed

\* a noisy field: samples were clamped at both ends
C16_Witness ==
  /\ call.op = "crt_demodulate"
  /\ call.noise > 0
  /\ \E n \in 0..(CRT_VRES - 1) : \E t \in 1..CRT_HRES : inp[n][t] = 127
  /\ \E n \in 0..(CRT_VRES - 1) : \E t \in 1..CRT_HRES : inp[n][t] = -127

(***************************************************************************)
(* Properties of the output rows and of the vertical sync                  *)
(***************************************************************************)
\* what the loop over the lines of that call read
LastCtx == DemodCtx(call.was, v.vsync, call.j, 0)

ActiveLines == CRT_TOP..(CRT_BOT - 1)

\* the bands of the lines that draw lie one after the other: no line writes
\* into the band of another
BandsApart(d) ==
  \A line \in ActiveLines :
    /\ BandBeg(d, line) < BandEnd(d, line) \/ BandBeg(d, line) >= d.outh
    /\ line + 1 \in ActiveLines => BandEnd(d, line) <= BandBeg(d, line + 1)

\* the rows beg+1 .. end-scanlines-1 of every band hold the row beg
BandCopied(d) ==
  \A line \in ActiveLines :
    BandBeg(d, line) < d.outh =>
      \A r \in (BandBeg(d, line) + 1)..(BandEnd(d, line) - d.scanlines - 1) :
        out[r] = out[BandBeg(d, line)]

\* with scanlines = 1 the row end-1 of every band is as it was before the call
BandGapKept(d) ==
  d.scanlines = 1 =>
    \A line \in ActiveLines :
      BandBeg(d, line) < d.outh =>
        out[BandEnd(d, line) - 1] = call.before[BandEnd(d, line) - 1]

\* BandGapKept for the bands of two rows or more
BandGapKeptBelow(d) ==
  d.scanlines = 1 =>
    \A line \in ActiveLines :
      (BandBeg(d, line) < d.outh /\ BandEnd(d, line) - 1 > BandBeg(d, line)) =>
        out[BandEnd(d, line) - 1] = call.before[BandEnd(d, line) - 1]

\* with outh = 4*CRT_LINES and scanlines = 1: rows 4k+1 and 4k+2 hold row 4k
\* and row 4k+3 is as it was before the call
FourRowBands ==
  (v.outh = 4 * CRT_LINES /\ v.scanlines = 1) =>
    \A k \in 0..(CRT_LINES - 1) :
      /\ out[4 * k + 1] = out[4 * k]
      /\ out[4 * k + 2] = out[4 * k]
      /\ out[4 * k + 3] = call.before[4 * k + 3]

\* C13: for each active line with band [beg, end), crt_demodulate copies the
\* row beg it drew into rows beg+1 .. end-scanlines-1; with scanlines = 1 the
\* last row of a band of two rows or more is left as it was.  With
\* outh = 4*CRT_LINES, scanlines = 1 and a vertical sync found in the first
\* half of a line, rows 4k+1 and 4k+2 equal row 4k and row 4k+3 is left as
\* it was
C13_BandRows ==
  (Demodulated /\ BandsApart(LastCtx)) =>
    /\ BandCopied(LastCtx)
    /\ BandGapKeptBelow(LastCtx)
    /\ call.j <= CRT_HRES \div 2 => FourRowBands

\* an even field drawn with scanlines = 1 on 4*CRT_LINES rows that were
\* black: every fourth row is still black between rows that are not
C13_Witness ==
  /\ Demodulated
  /\ v.outh = 4 * CRT_LINES /\ v.scanlines = 1
  /\ call.j <= CRT_HRES \div 2
  /\ out[400] # call.before[400]
  /\ out[401] = out[400] /\ out[402] = out[400]
  /\ out[403] = call.before[403] /\ out[403] # out[402]

\* C13 as the specification states it: the last row of every band is left as
\* it was, and the rows 4k .. 4k+3 are a band whichever field was found
C13_EveryBand ==
  (Demodulated /\ BandsApart(LastCtx)) =>
    /\ BandCopied(LastCtx)
    /\ BandGapKept(LastCtx)
    /\ FourRowBands

\* the running sums s of line 870 over the samples lo .. hi of a row, from
\* the sum s0 of the samples before them
RECURSIVE RunningSums(_, _, _, _)
RunningSums(row, lo, hi, s0) ==
  IF lo = hi THEN << s0 + row[lo] >>
  ELSE LET mid == (lo + hi) \div 2
           a == RunningSums(row, lo, mid, s0)
       IN a \o RunningSums(row, mid + 1, hi, a[Len(a)])

\* the first column of a row at which the running sum is at or below
\* CRT_VSYNC_THRESH * SYNC_LEVEL, -1 if there is none
FirstCrossing(row) ==
  LET sums == RunningSums(row, 1, CRT_HRES, 0)
      at == { t \in 1..CRT_HRES : sums[t] <= CRT_VSYNC_THRESH * SYNC_LEVEL }
  IN IF at = { } THEN -1 ELSE (CHOOSE t \in at : \A u \in at : t <= u) - 1

\* the i of line 864
VsyncTries == (-CRT_VSYNC_WINDOW)..(CRT_VSYNC_WINDOW - 1)

\* the line tried for i by the last call
TriedLine(i) == POSMOD(call.was.vsync + i, CRT_VRES)

\* the first crossing of each line the last call tried, in the signal it read
Crossings == Tabulate([i \in VsyncTries |-> FirstCrossing(inp[TriedLine(i)])])

\* C18: crt_demodulate tries the lines (vsync + i) mod 262 for i = -8 .. 7 in
\* that order; the first of them whose running sum from column 0 reaches
\* CRT_VSYNC_THRESH * SYNC_LEVEL = -3760 or less is the new vsync, and the
\* field is odd exactly when the column of that crossing is above CRT_HRES/2
C18_FirstCrossingWins ==
  Demodulated =>
    \E w \in { Crossings } :
      /\ CRT_VSYNC_THRESH * SYNC_LEVEL = -3760
      /\ VsyncTries = -8..7
      /\ \A i \in VsyncTries :
           (w[i] >= 0 /\ \A k \in VsyncTries : k < i => w[k] < 0) =>
             /\ v.vsync = (call.was.vsync + i + CRT_VRES) % CRT_VRES
             /\ call.j = w[i]
             /\ call.field =
                  (IF w[i] > CRT_HRES \div 2 THEN 1 ELSE 0) * (OutRatio(v.outh) \div 2)

\* the lines 4, 5 and 6 of an odd field all cross: the first of them is the
\* new vsync, and the rows are drawn two rows lower
C18_Witness ==
  /\ Demodulated
  /\ v.outh = 4 * CRT_LINES
  /\ call.was.vsync = 0 /\ v.vsync = 4
  /\ \E w \in { Crossings } :
       /\ w[4] > CRT_HRES \div 2 /\ w[5] >= 0 /\ w[6] >= 0
       /\ \A k \in VsyncTries : k < 4 => w[k] < 0
  /\ call.field = 2

\* C19: when no line tried crosses the threshold, vsync becomes
\* (old vsync + 7) mod 262 and the field is taken as odd
C19_NoCrossingDrifts ==
  (Demodulated /\ \A i \in VsyncTries : FirstCrossing(inp[TriedLine(i)]) < 0) =>
    /\ v.vsync = (call.was.vsync + 7) % CRT_VRES
    /\ call.j > CRT_HRES \div 2
    /\ call.field = OutRatio(v.outh) \div 2

\* crt_demodulate twice before any crt_modulate: vsync went from 0 to 7, and
\* from 7 to 14
C19_Witness ==
  /\ Demodulated
  /\ hist = << "crt_demodulate", "crt_demodulate" >>
  /\ inp = ZeroField
  /\ call.was.vsync = 7 /\ v.vsync = 14
  /\ call.j > CRT_HRES \div 2

\* C20: crt_demodulate with noise = 0, called after crt_modulate with field f
\* on a CRT whose vsync window contains line 4, locks to line 4 and finds
\* field f: the crossing is in the first half of the line for f = 0 and in
\* the second half for f = 1
C20_FieldRoundTrip ==
  (/\ Demodulated /\ call.noise = 0
   /\ Len(hist) >= 2 /\ hist[Len(hist) - 1] = "crt_modulate"
   /\ crt_bpp4fmt(s.format) # 0
   /\ \E i \in VsyncTries : TriedLine(i) = 4) =>
    /\ s.field \in { 0, 1 }
    /\ call.j > CRT_HRES \div 2 <=> s.field = 1
    /\ call.field = s.field * (OutRatio(v.outh) \div 2)

\* an odd field of a white image at hue 45 was found
C20_Witness ==
  /\ Demodulated
  /\ hist = << "crt_modulate", "crt_demodulate" >>
  /\ call.was.vsync = 0 /\ v.vsync = 4
  /\ s.field = 1 /\ s.hue = 45 /\ call.j > CRT_HRES \div 2
  /\ v.outh = 4 * CRT_LINES /\ call.field = 2

(***************************************************************************)
(* Properties of the noise                                                 *)
(***************************************************************************)
\* C21: for every noise >= 0 and every state of the generator, the noise
\* added to a sample lies between -(noise/2) rounded down and noise/2
\* rounded down: in [-(noise+1)/2, noise/2] in integer arithmetic
C21_NoiseWithinHalfUp ==
  call.op = "noise" =>
    /\ call.term >= -(call.noise \div 2) - (call.noise % 2)
    /\ call.term <= call.noise \div 2

\* an odd noise and the byte 0: the term is one below -noise/2
C21_Witness ==
  /\ call.op = "noise"
  /\ call.noise = 3 /\ call.byte = 0
  /\ call.term = -2

\* C21 as the specification states it: the noise added lies in
\* [-noise/2, +noise/2]
C21_NoiseWithinHalf ==
  call.op = "noise" =>
    /\ 2 * call.term >= -call.noise
    /\ 2 * call.term <= call.noise

(***************************************************************************)
(* Properties of the lines crt_modulate builds                             *)
(***************************************************************************)
\* the column at which p percent of a line have passed
Percent(p) == (p * CRT_HRES) \div 100

\* row n holds SYNC up to a percent of the line, BLANK up to b, SYNC up to c
\* and BLANK to the end
PulsesAt(n, a, b, c) ==
  \A t \in Cols :
    analog[n][t + 1] =
      IF t < Percent(a) \/ (t >= Percent(b) /\ t < Percent(c))
        THEN SYNC_LEVEL ELSE BLANK_LEVEL

\* row n holds a sync tip, a burst no larger than BURST_LEVEL and blanking
BlankLine(n) ==
  \A t \in Cols :
    IF t >= SYNC_BEG /\ t < BW_BEG THEN analog[n][t + 1] = SYNC_LEVEL
    ELSE IF t >= CB_BEG /\ t < CB_BEG + CB_CYCLES * CRT_CB_FREQ
      THEN analog[n][t + 1] >= -BURST_LEVEL /\ analog[n][t + 1] <= BURST_LEVEL
    ELSE analog[n][t + 1] = BLANK_LEVEL

\* C22: after crt_modulate lines 0-3 and 7-9 hold equalizing pulses (SYNC for
\* the first 4% of the line, BLANK to 50%, SYNC to 54%, BLANK to the end),
\* lines 4-6 the vertical sync pulse with its boundaries at 46, 50, 96, 100%
\* for field 0 and at 4, 50, 96, 100% for field 1, and lines 10 .. CRT_TOP-1
\* blanking, sync tip and burst only
C22_SyncLines ==
  Modulated =>
    /\ \A n \in (0..3) \cup (7..9) : PulsesAt(n, 4, 50, 54)
    /\ \A n \in 4..6 : IF s.field = 1 THEN PulsesAt(n, 4, 50, 96)
                                      ELSE PulsesAt(n, 46, 50, 96)
    /\ s.field \in { 0, 1 }
    /\ \A n \in 10..(CRT_TOP - 1) : BlankLine(n)

\* an odd field in colour, built by a call that was not the first
C22_Witness ==
  /\ Modulated
  /\ Len(hist) >= 2
  /\ s.field = 1 /\ s.as_color = 1
  /\ analog[4][Percent(4)] = SYNC_LEVEL /\ analog[4][Percent(4) + 1] = BLANK_LEVEL
  /\ analog[3][Percent(54)] = SYNC_LEVEL /\ analog[3][Percent(54) + 1] = BLANK_LEVEL
  /\ \E t \in Cols : analog[10][t + 1] > 0
  /\ \E t \in Cols : analog[CRT_TOP - 1][t + 1] < 0 /\ t >= CB_BEG

\* the columns of the colour burst
BurstCols == CB_BEG..(CB_BEG + CB_CYCLES * CRT_CB_FREQ - 1)

\* C23: at the end of every crt_modulate with a valid format ccf[n][x] is
\* the burst sample of phase x shifted left by 7, for every n and x,
\* whatever ccf held before the call
C23_CcfSeeded ==
  Modulated =>
    \A n \in 0..(CRT_CC_VPER - 1) : \A t \in BurstCols :
      ccf[n][(t % CRT_CC_SAMPLES) + 1] = analog[CRT_TOP - 1][t + 1] * 128

\* a crt_modulate in colour that followed the first crt_demodulate
C23_Witness ==
  /\ Modulated
  /\ Len(hist) >= 2 /\ hist[Len(hist) - 1] = "crt_demodulate"
  /\ ndemod = 1 /\ v.rn # 194
  /\ s.as_color = 1
  /\ \E x \in 1..CRT_CC_SAMPLES : ccf[0][x] < 0
  /\ \E x \in 1..CRT_CC_SAMPLES : ccf[0][x] > 0

\* the settings of the last call with the field and frame of inv_phase = 0
PlainPhase == [s EXCEPT !.field = 1, !.frame = 0]

\* the burst samples of inv_phase = 0 at the times CB_BEG + k - 1, to two
\* samples past the burst
PlainBurst ==
  Tabulate([k \in 1..(CB_CYCLES * CRT_CB_FREQ + 2) |->
              BurstSample(PlainPhase, CB_BEG + k - 1)])

\* the lines that carry a burst
BurstLines == 10..(CRT_VRES - 1)

\* C24: inv_phase is 1 exactly when the masked field and frame are equal.
\* With inv_phase = 1 the burst sample written at time t is the burst sample
\* of inv_phase = 0 at time t+2 and the chroma sign ph is -1; with
\* inv_phase = 0 the sign is +1.  Every line of the call has the same
\* inv_phase
C24_PhaseByFieldAndFrame ==
  Modulated =>
    \E inv \in { IF call.arg.field % 2 = call.arg.frame % 2 THEN 1 ELSE 0 } :
    \E plain \in { PlainBurst } :
      /\ s.field = call.arg.field % 2 /\ s.frame = call.arg.frame % 2
      /\ \A n \in BurstLines : \A t \in BurstCols :
           analog[n][t + 1] = plain[t + 2 * inv - CB_BEG + 1]
      /\ ModCtx(s, v.black_point, v.white_point, iir).ph = (IF inv = 1 THEN -1 ELSE 1)

\* a field in colour with field = frame: its burst is not the burst of
\* inv_phase = 0
C24_Witness ==
  /\ Modulated
  /\ s.field = s.frame /\ s.as_color = 1
  /\ \E t \in BurstCols : analog[CRT_TOP][t + 1] # BurstSample(PlainPhase, t)
  /\ \A t \in BurstCols : analog[CRT_BOT][t + 1] = BurstSample(PlainPhase, t + 2)

(***************************************************************************)
(* Properties of the lock                                                  *)
(***************************************************************************)
\* a crt_demodulate that starts with vsync = 4 ends with vsync = 4
C25_StaysLocked == v.vsync = 4 => v'.vsync = 4

\* on the field the first crt_modulate built the running sum reaches the
\* threshold on the lines 4, 5 and 6 and on no other: crt_demodulate leaves
\* vsync at 4 if line 4 is among the sixteen lines it tries, at 5 or 6 if one
\* of these is the first it tries, and seven lines on if it tries none
C25_PulseLines ==
  (Modulated /\ Mods(hist) = 1) =>
    { n \in Rows : FirstCrossing(analog[n]) >= 0 } = 4..6

\* C25: from any vsync, crt_modulate and crt_demodulate(noise = 0) in turn
\* reach vsync = 4 in the end, and once vsync is 4 every later pair of calls
\* leaves it 4
C25_VsyncLocks ==
  <>(v.vsync = 4) /\ [][C25_StaysLocked]_vars /\ []C25_PulseLines

\* the lock was reached after six calls that found no vertical sync, and
\* kept by the call after it
C25_Witness ==
  /\ Demodulated
  /\ ndemod = 8
  /\ hist[1] = "crt_modulate" /\ hist[15] = "crt_modulate"
  /\ v.vsync = 4 /\ call.was.vsync = 4
  /\ inits = 1

\* C26: on a noise-free signal with vsync locked, once hsync has reached its
\* locked value (a line leaves it as the line before left it) it keeps that
\* value on every remaining active line of the call, and it is the value the
\* next crt_demodulate starts from
C26_HsyncStaysLocked ==
  (/\ Demodulated /\ call.noise = 0
   /\ Len(hist) >= 2 /\ hist[Len(hist) - 1] = "crt_modulate"
   /\ crt_bpp4fmt(s.format) # 0
   /\ v.vsync = 4) =>
    /\ Len(call.hs) = CRT_LINES
    /\ \A k \in 2..Len(call.hs) :
         call.hs[k] = call.hs[k - 1] =>
           /\ \A n \in k..Len(call.hs) : call.hs[n] = call.hs[k]
           /\ v.hsync = call.hs[k]

(***************************************************************************)
(* Properties of the pixels crt_modulate reads                             *)
(***************************************************************************)
\* C27: for both fields, every size of the image and every destination
\* pixel, the source column sampled is in [0, w) and the source row sampled,
\* after the field offset and the clamp, is in [0, h)
C27_ReadsInsideImage ==
  call.op = "source rows" =>
    /\ \A x \in DOMAIN call.cols : call.cols[x] \in 0..(call.w - 1)
    /\ \A y \in DOMAIN call.even : call.even[y] \in 0..(call.h - 1)
    /\ \A y \in DOMAIN call.odd : call.odd[y] \in 0..(call.h - 1)

(***************************************************************************)
(* Properties of the samples crt_demodulate reads                          *)
(***************************************************************************)
\* C28: whatever calls went before, with any noise, every read of inp that
\* crt_demodulate makes in the search for the horizontal sync, in the burst
\* and in the active video uses an index in [0, CRT_INPUT_SIZE)
C28_InpReadsInBounds == Demodulated => ~call.outside

(***************************************************************************)
(* Properties of what the two passes write                                 *)
(***************************************************************************)
\* C29: crt_demodulate changes at most inp, ccf, hsync, vsync, rn and the
\* output pixels: analog, the knobs, the output target and the settings stay
\* as they were.  crt_modulate changes at most analog, ccf and the members
\* field, frame and iirs_initialized of the settings: inp, the whole CRT
\* besides analog and ccf, and the output pixels stay as they were.
C29_Step ==
  /\ hist' = Append(hist, "crt_demodulate") =>
       /\ analog' = analog
       /\ v' = [v EXCEPT !.hsync = v'.hsync, !.vsync = v'.vsync, !.rn = v'.rn]
       /\ s' = s
  /\ hist' = Append(hist, "crt_modulate") =>
       /\ inp' = inp /\ v' = v /\ out' = out
       /\ s' = [call'.arg EXCEPT !.field = s'.field, !.frame = s'.frame,
                                 !.iirs_initialized = s'.iirs_initialized]

C29_DisjointWrites == [][C29_Step]_vars

\* both passes have run and each has changed what it may: crt_modulate the
\* signal, the carrier sums and the latch of the settings, crt_demodulate the
\* copy of the signal, the carrier sums, the two syncs, the random state and
\* the pixels
C29_Witness ==
  /\ hist = << "crt_modulate", "crt_demodulate" >>
  /\ Demodulated
  /\ analog # ZeroField /\ s.iirs_initialized = 1
  /\ inp # ZeroField /\ ccf # SeedCcf(s)
  /\ v.hsync # call.was.hsync /\ v.vsync # call.was.vsync /\ v.rn # call.was.rn
  /\ out # call.before

=============================================================================
